---- MODULE Spec2Model ----
(***************************************************************************)
(* A model of AgentOrchestrator (src/orchestration/orchestrator.py): input *)
(* validation, sequential and parallel dispatch of the registered          *)
(* evaluators, result aggregation, performance metrics and the bounded     *)
(* execution history.                                                      *)
(*                                                                         *)
(* Numbers that are floats in the program (scores, durations) are kept as  *)
(* exact integers in tenths: 0.5 is 5, the integer 1 is 10.  The running   *)
(* average is kept as an exact fraction, so rounding of binary floating    *)
(* point is not part of the model.                                         *)
(***************************************************************************)
EXTENDS Integers, Sequences, FiniteSets, TLC

\* ------------------------------------------------------------------------
\* Bounds of the model
\* ------------------------------------------------------------------------
MaxAgents == 3
MaxRuns == 2
\* Runs already made when the long-lived orchestrator of SpecWarm is met,
\* and the most evaluators it has.
WarmRuns == 99
WarmAgents == 2
\* The most evaluators of the orchestrators that are followed while the
\* clock advances.
SmallAgents == 2
\* The system clock, in tenths of a second: the latest reading, and the
\* time that passes between two readings.
MaxClock == 10
TickStep == 5
\* The runs made by the orchestrator of the four standard evaluators.
StandardRuns == 1
\* The most evaluators in the result maps the aggregation is called on.
AggAgents == 3

\* ------------------------------------------------------------------------
\* Python values, as far as the validator can tell them apart
\* ------------------------------------------------------------------------
\* A value is [t |-> its Python type, n |-> its number in tenths (0 when it
\* is no number), items |-> the types of its elements when it is a list].
Val(t, n, items) == [t |-> t, n |-> n, items |-> items]

NoneVal == Val("NoneType", 0, <<>>)

\* required_fields, in the order of the list in _validate_input_data
required_fields == <<"risk_score", "bias_score", "risk_level", "features">>

FieldNames == {required_fields[i] : i \in 1..Len(required_fields)}

\* input_data: isdict is what isinstance(input_data, dict) answers, present
\* is the set of keys, val the value under each key.
InputData(isdict, present, val) == [isdict |-> isdict, present |-> present, val |-> val]

\* isinstance(value, expected_type): bool is a subclass of int, and an int
\* is not a float.
IsInstance(value, expected_type) ==
    CASE expected_type = "float" -> value.t = "float"
      [] expected_type = "int" -> value.t \in {"int", "bool"}
      [] expected_type = "list" -> value.t = "list"
      [] OTHER -> FALSE

\* The lambdas of the validations table.
Validator(field, x) ==
    CASE field \in {"risk_score", "bias_score"} -> 0 <= x.n /\ x.n <= 10
      [] field = "risk_level" -> x.n \in {0, 10, 20}
      [] field = "features" -> Len(x.items) > 0
      [] OTHER -> TRUE

\* The validations table: (field, expected_type), in the order of the code.
validations ==
    << <<"risk_score", "float">>, <<"bias_score", "float">>,
       <<"risk_level", "int">>, <<"features", "list">> >>

\* What a validation step answers: "ok", or the exception it raises.
Verdict(kind, fields) == [kind |-> kind, fields |-> fields]

VerdictOk == Verdict("ok", <<>>)

RECURSIVE FieldTypesFrom(_, _)
FieldTypesFrom(input_data, i) ==
    IF i > Len(validations) THEN VerdictOk
    ELSE LET field == validations[i][1]
             expected_type == validations[i][2]
             value == input_data.val[field]
         IN IF field \in input_data.present
            THEN IF ~IsInstance(value, expected_type)
                 THEN Verdict("type", <<field>>)
                 ELSE IF ~Validator(field, value)
                      THEN Verdict("range", <<field>>)
                      ELSE FieldTypesFrom(input_data, i + 1)
            ELSE FieldTypesFrom(input_data, i + 1)

\* _validate_field_types: the first failing entry of the table raises.
ValidateFieldTypes(input_data) == FieldTypesFrom(input_data, 1)

\* [field for field in required_fields if field not in input_data]
MissingFields(input_data) ==
    SelectSeq(required_fields, LAMBDA f : f \notin input_data.present)

\* A validator that forgets the check for missing fields.
ValidateInputDataNoMissingCheck(input_data) ==
    IF ~input_data.isdict THEN Verdict("not_dict", <<>>)
    ELSE ValidateFieldTypes(input_data)

\* _validate_input_data
ValidateInputData(input_data) ==
    IF ~input_data.isdict THEN Verdict("not_dict", <<>>)
    ELSE IF MissingFields(input_data) # <<>>
         THEN Verdict("missing", MissingFields(input_data))
         ELSE ValidateFieldTypes(input_data)

IsValid(input_data) == ValidateInputData(input_data).kind = "ok"

\* ------------------------------------------------------------------------
\* The validator as a pure function: every input of a bounded universe
\* ------------------------------------------------------------------------
ScoreVals ==
    { Val("float", 0, <<>>), Val("float", 5, <<>>), Val("float", 10, <<>>),
      Val("float", 11, <<>>), Val("float", -1, <<>>),
      Val("int", 0, <<>>), Val("int", 10, <<>>), Val("int", 20, <<>>),
      Val("bool", 10, <<>>), Val("str", 0, <<>>) }

LevelVals ==
    { Val("int", 0, <<>>), Val("int", 10, <<>>), Val("int", 20, <<>>),
      Val("int", 30, <<>>), Val("int", -10, <<>>),
      Val("float", 10, <<>>), Val("bool", 10, <<>>), Val("str", 0, <<>>) }

FeatureVals ==
    { Val("list", 0, <<>>), Val("list", 0, <<"str">>),
      Val("list", 0, <<"str", "str">>), Val("list", 0, <<"int">>),
      Val("list", 0, <<"str", "int">>), Val("tuple", 0, <<"str">>),
      Val("str", 0, <<>>) }

FieldVals(field) ==
    CASE field \in {"risk_score", "bias_score"} -> ScoreVals
      [] field = "risk_level" -> LevelVals
      [] OTHER -> FeatureVals

\* The values a key can hold in a dictionary with key set p.
Opt(p, field) == IF field \in p THEN FieldVals(field) ELSE {NoneVal}

\* Every dictionary over the required fields, each field absent or holding
\* one of its values, and one input that is no dictionary.
AllInputs ==
    { InputData(FALSE, {}, [f \in FieldNames |-> NoneVal]) }
    \cup
    UNION { { InputData(TRUE, p,
                [risk_score |-> a, bias_score |-> b, risk_level |-> c, features |-> d]) :
                a \in Opt(p, "risk_score"), b \in Opt(p, "bias_score"),
                c \in Opt(p, "risk_level"), d \in Opt(p, "features") } :
            p \in SUBSET FieldNames }


SeqToSet(seq) == {seq[i] : i \in 1..Len(seq)}

\* ------------------------------------------------------------------------
\* Dictionaries that keep insertion order (Python dict)
\* ------------------------------------------------------------------------
DictKeys(d) == [i \in 1..Len(d) |-> d[i].k]

DictHas(d, key) == \E i \in 1..Len(d) : d[i].k = key

DictGet(d, key) == d[CHOOSE i \in 1..Len(d) : d[i].k = key].v

\* A dictionary that puts a new key first.
DictSetFront(d, key, value) ==
    IF DictHas(d, key)
    THEN [i \in 1..Len(d) |-> IF d[i].k = key THEN [k |-> key, v |-> value] ELSE d[i]]
    ELSE <<[k |-> key, v |-> value]>> \o d

\* d[key] = value: a new key goes last, an existing key keeps its place.
DictSet(d, key, value) ==
    IF DictHas(d, key)
    THEN [i \in 1..Len(d) |-> IF d[i].k = key THEN [k |-> key, v |-> value] ELSE d[i]]
    ELSE Append(d, [k |-> key, v |-> value])

\* ------------------------------------------------------------------------
\* Exact fractions <<numerator, denominator>> in lowest terms
\* ------------------------------------------------------------------------
RECURSIVE Gcd(_, _)
Gcd(a, b) == IF b = 0 THEN a ELSE Gcd(b, a % b)

Frac(n, d) == LET g == Gcd(n, d) IN IF g = 0 THEN <<0, 1>> ELSE <<n \div g, d \div g>>

RECURSIVE SumTimes(_)
SumTimes(entries) ==
    IF entries = <<>> THEN 0
    ELSE Head(entries).execution_time + SumTimes(Tail(entries))

\* ------------------------------------------------------------------------
\* The registered evaluators and what a call of evaluate can do
\* ------------------------------------------------------------------------
\* The evaluators the program registers, in declaration order.
AllNames == <<"Compliance", "BiasAudit", "DecisionSupport", "Explainability">>

\* The lists an orchestrator is constructed with.
AgentLists == { SubSeq(AllNames, 1, n) : n \in 1..MaxAgents }

\* The fields of an evaluator's output the aggregation reads.
Out(keys, decision, compliant) ==
    [keys |-> keys, decision |-> decision, compliant |-> compliant]

\* What one call of evaluate does: it raises exc, or it returns out after
\* time tenths of a second.
Outcome(raises, exc, out, time) ==
    [raises |-> raises, exc |-> exc, out |-> out, time |-> time]

\* The names the test suite registers the four evaluators under.
TestNames ==
    <<"ComplianceAgent", "BiasAuditingAgent", "DecisionSupportAgent",
      "ExplainabilityAgent">>

\* The class of the evaluator registered under the name.
AgentClass(name) ==
    CASE name \in {"Compliance", "ComplianceAgent"} -> "ComplianceAgent"
      [] name \in {"BiasAudit", "BiasAuditingAgent"} -> "BiasAuditingAgent"
      [] name \in {"DecisionSupport", "DecisionSupportAgent"} -> "DecisionSupportAgent"
      [] OTHER -> "ExplainabilityAgent"

\* What the evaluator called name returns when it does not raise: each
\* class has a field of its own; the aggregation reads 'compliant' and
\* 'decision'; the bias evaluator is the slow one.
Returned(name) ==
    CASE AgentClass(name) = "ComplianceAgent" ->
            Outcome(FALSE, "", Out({"compliant"}, "", FALSE), 5)
      [] AgentClass(name) = "DecisionSupportAgent" ->
            Outcome(FALSE, "", Out({"decision"}, "Approve", FALSE), 5)
      [] AgentClass(name) = "BiasAuditingAgent" ->
            Outcome(FALSE, "", Out({"bias_flagged"}, "", FALSE), 15)
      [] OTHER -> Outcome(FALSE, "", Out({"explanation"}, "", FALSE), 5)

\* The exception of an evaluator that raises.
Raised(name) == Outcome(TRUE, "boom", Out({}, "", FALSE), 0)

\* What a call of the evaluator's evaluate can do.
Outcomes(name) == {Returned(name), Raised(name)}

\* Every way the evaluators of the list can behave in one run.
Behaviours(list) ==
    { b \in [SeqToSet(list) -> UNION {Outcomes(name) : name \in SeqToSet(list)}] :
        \A name \in SeqToSet(list) : b[name] \in Outcomes(name) }

\* The durations a run can measure, in tenths of a second.
ExecTimes == {10, 30}

\* An entry that holds the execution_time alone and drops the evaluator's
\* own fields.
SuccessResultTimeOnly(o) ==
    [keys |-> {"execution_time"}, error |-> <<>>, status |-> "",
     execution_time |-> o.time, decision |-> "", compliant |-> FALSE]

\* The entry of an evaluator that returned: its output, annotated with
\* execution_time.
SuccessResult(o) ==
    [keys |-> o.out.keys \cup {"execution_time"}, error |-> <<>>, status |-> "",
     execution_time |-> o.time, decision |-> o.out.decision,
     compliant |-> o.out.compliant]

\* The entry of an evaluator that raised, under continue_on_error.
ErrorResult(error_msg) ==
    [keys |-> {"error", "status", "execution_time"}, error |-> error_msg,
     status |-> "failed", execution_time |-> 0, decision |-> "", compliant |-> FALSE]

\* f"Agent {agent.name} failed: {str(e)}"
AgentErrorMsg(name, exc) == <<"Agent failed", name, exc>>

\* str(e) of the exception a failed validation raises
ValidationMsg(verdict) == <<verdict.kind>> \o verdict.fields

\* f"Orchestration failed: {str(e)}"
OrchestrationMsg(msg) == <<"Orchestration failed">> \o msg


\* ------------------------------------------------------------------------
\* Performance metrics and the execution history
\* ------------------------------------------------------------------------
\* Keep only last 100 executions
HistoryLimit == 100

\* The metrics after construction and after reset_metrics.
ZeroMetrics ==
    [total_executions |-> 0, successful_executions |-> 0,
     failed_executions |-> 0, average_execution_time |-> <<0, 1>>]

\* An update that weighs the old average with the new count of runs.
UpdatePerformanceMetricsWrongWeight(m, execution_time, success) ==
    LET n == m.total_executions + 1
        avg == m.average_execution_time
    IN [total_executions |-> n,
        successful_executions |->
            IF success THEN m.successful_executions + 1 ELSE m.successful_executions,
        failed_executions |->
            IF success THEN m.failed_executions ELSE m.failed_executions + 1,
        average_execution_time |-> Frac(avg[1] * n + execution_time * avg[2], avg[2] * n)]

\* An update that counts a failed run in the total alone.
UpdatePerformanceMetricsFailedUncounted(m, execution_time, success) ==
    LET n == m.total_executions + 1
        avg == m.average_execution_time
    IN [total_executions |-> n,
        successful_executions |->
            IF success THEN m.successful_executions + 1 ELSE m.successful_executions,
        failed_executions |-> m.failed_executions,
        average_execution_time |->
            Frac(avg[1] * (n - 1) + execution_time * avg[2], avg[2] * n)]

\* _update_performance_metrics
UpdatePerformanceMetrics(m, execution_time, success) ==
    LET n == m.total_executions + 1
        avg == m.average_execution_time
        \* total_time = average_execution_time * (total_executions - 1) + execution_time
        total_num == avg[1] * (n - 1) + execution_time * avg[2]
        total_den == avg[2]
    IN [total_executions |-> n,
        successful_executions |->
            IF success THEN m.successful_executions + 1 ELSE m.successful_executions,
        failed_executions |->
            IF success THEN m.failed_executions ELSE m.failed_executions + 1,
        average_execution_time |-> Frac(total_num, total_den * n)]

\* execution_id = f"exec_{int(start_time.timestamp())}": the whole seconds of
\* the time at which run() was entered, start_time being in tenths.
ExecutionId(start_time) == start_time \div 10

\* history_entry.  timestamp is the time of the store, counted in runs
\* started; input_data and results are carried along by the program and
\* read by nothing, and are left out.
HistoryEntry(execution_id, timestamp, execution_time, success, error_msg) ==
    [execution_id |-> execution_id, timestamp |-> timestamp,
     execution_time |-> execution_time, success |-> success,
     error_message |-> error_msg]

\* A store that cuts the list at the front end: it keeps the oldest entries.
StoreExecutionHistoryKeepOldest(history, history_entry) ==
    LET appended == Append(history, history_entry)
    IN IF Len(appended) > HistoryLimit
       THEN SubSeq(appended, 1, HistoryLimit)
       ELSE appended

\* _store_execution_history
StoreExecutionHistory(history, history_entry) ==
    LET appended == Append(history, history_entry)
    IN IF Len(appended) > HistoryLimit
       THEN SubSeq(appended, Len(appended) - HistoryLimit + 1, Len(appended))
       ELSE appended

\* ------------------------------------------------------------------------
\* Health
\* ------------------------------------------------------------------------
\* A report that takes the oldest entry of the history for the last run.
GetHealthStatusOldestEntry(metrics, status, history) ==
    [orchestrator_status |->
        IF metrics.failed_executions = 0 THEN "healthy" ELSE "degraded",
     agent_status |-> status,
     performance_metrics |-> metrics,
     last_execution |-> IF history # <<>> THEN <<history[1]>> ELSE <<>>]

\* A report that calls the orchestrator degraded as soon as an evaluator is
\* marked failed.
GetHealthStatusByAgents(metrics, status, history) ==
    [orchestrator_status |->
        IF metrics.failed_executions = 0
           /\ \A name \in DOMAIN status : status[name] # "failed"
        THEN "healthy" ELSE "degraded",
     agent_status |-> status,
     performance_metrics |-> metrics,
     last_execution |-> IF history # <<>> THEN <<history[Len(history)]>> ELSE <<>>]

\* get_health_status.  last_execution is <<>> for None and <<entry>> for
\* an entry.
GetHealthStatus(metrics, status, history) ==
    [orchestrator_status |->
        IF metrics.failed_executions = 0 THEN "healthy" ELSE "degraded",
     agent_status |-> status,
     performance_metrics |-> metrics,
     last_execution |-> IF history # <<>> THEN <<history[Len(history)]>> ELSE <<>>]

\* ------------------------------------------------------------------------
\* Aggregation
\* ------------------------------------------------------------------------
HasError(result) == "error" \in result.keys

\* A list of the successful evaluators that leaves the filter out.
SuccessfulAgentsUnfiltered(results) == DictKeys(results)

\* [name for name, result in results.items() if 'error' not in result]
SuccessfulAgents(results) ==
    SelectSeq(DictKeys(results), LAMBDA name : ~HasError(DictGet(results, name)))

\* [name for name, result in results.items() if 'error' in result]
FailedAgents(results) ==
    SelectSeq(DictKeys(results), LAMBDA name : HasError(DictGet(results, name)))

\* The names whose result has no error and carries the key, in the order of
\* results.items().
Carrying(results, key) ==
    SelectSeq(DictKeys(results),
              LAMBDA name : /\ ~HasError(DictGet(results, name))
                            /\ key \in DictGet(results, name).keys)

\* decisions in _generate_insights and _generate_summary
Decisions(results) ==
    LET names == Carrying(results, "decision")
    IN [i \in 1..Len(names) |-> DictGet(results, names[i]).decision]

\* decisions.count(d)
Count(seq, d) == Cardinality({i \in 1..Len(seq) : seq[i] = d})

\* max(set(decisions), key=decisions.count) returns the first element of
\* the set, in the set's iteration order, that has the greatest count; the
\* iteration order of a set of strings is not fixed, so it can be any of
\* the most frequent decisions.
PrimaryDecisionChoices(results) ==
    LET decisions == Decisions(results)
    IN IF decisions = <<>> THEN {""}
       ELSE {d \in SeqToSet(decisions) :
               \A e \in SeqToSet(decisions) : Count(decisions, e) <= Count(decisions, d)}

\* The conflict rule of _generate_insights.
ConflictDetection(results) ==
    IF /\ DictHas(results, "Compliance") /\ DictHas(results, "DecisionSupport")
       /\ "compliant" \in DictGet(results, "Compliance").keys
       /\ "decision" \in DictGet(results, "DecisionSupport").keys
       /\ ~DictGet(results, "Compliance").compliant
       /\ DictGet(results, "DecisionSupport").decision = "Approve"
    THEN <<"Conflict: Non-compliant assessment but approval decision">>
    ELSE <<>>

\* _generate_insights; primary_decision is the choice max() made.
GenerateInsights(results, primary_decision) ==
    LET decisions == Decisions(results)
    IN [consensus_analysis |->
          IF decisions # <<>>
          THEN [keys |-> {"decision_consensus", "primary_decision"},
                decision_consensus |-> Cardinality(SeqToSet(decisions)) = 1,
                primary_decision |-> primary_decision]
          ELSE [keys |-> {}, decision_consensus |-> FALSE, primary_decision |-> ""],
        conflict_detection |-> ConflictDetection(results)]

\* The latency above which an evaluator is reported slow: 1.0 second.
SlowThreshold == 10

Recommendation(text, names) == [text |-> text, names |-> names]

\* Recommendations of which the first that applies suppresses the others.
GenerateRecommendationsFirstOnly(results, insights) ==
    LET consensus ==
            IF "decision_consensus" \in insights.consensus_analysis.keys
            THEN insights.consensus_analysis.decision_consensus
            ELSE TRUE
        failed_agents == FailedAgents(results)
        slow_agents ==
            SelectSeq(DictKeys(results),
                      LAMBDA name :
                          /\ "execution_time" \in DictGet(results, name).keys
                          /\ DictGet(results, name).execution_time > SlowThreshold)
    IN IF ~consensus
       THEN <<Recommendation("Review conflicting agent decisions for consistency", <<>>)>>
       ELSE IF failed_agents # <<>>
            THEN <<Recommendation("Investigate failures in agents", failed_agents)>>
            ELSE IF slow_agents # <<>>
                 THEN <<Recommendation("Optimize performance for agents", slow_agents)>>
                 ELSE <<>>

\* _generate_recommendations
GenerateRecommendations(results, insights) ==
    LET consensus ==
            IF "decision_consensus" \in insights.consensus_analysis.keys
            THEN insights.consensus_analysis.decision_consensus
            ELSE TRUE
        failed_agents == FailedAgents(results)
        slow_agents ==
            SelectSeq(DictKeys(results),
                      LAMBDA name :
                          /\ "execution_time" \in DictGet(results, name).keys
                          /\ DictGet(results, name).execution_time > SlowThreshold)
    IN (IF ~consensus
        THEN <<Recommendation("Review conflicting agent decisions for consistency", <<>>)>>
        ELSE <<>>)
       \o (IF failed_agents # <<>>
           THEN <<Recommendation("Investigate failures in agents", failed_agents)>>
           ELSE <<>>)
       \o (IF slow_agents # <<>>
           THEN <<Recommendation("Optimize performance for agents", slow_agents)>>
           ELSE <<>>)

\* A status that takes any failure for a failure of the whole run.
OverallStatusNoPartial(successful_agents, failed_agents) ==
    IF failed_agents = <<>> THEN "success" ELSE "failure"

\* 'success' if not failed_agents else 'partial_failure' if successful_agents
\* else 'failure'
OverallStatus(successful_agents, failed_agents) ==
    IF failed_agents = <<>> THEN "success"
    ELSE IF successful_agents # <<>> THEN "partial_failure"
    ELSE "failure"

\* _generate_summary divides by len(self.agents): with no evaluator
\* registered it raises ZeroDivisionError.
SummaryRaises(registered) == Len(registered) = 0

\* _generate_summary.  total_agents is len(self.agents); the two rates are
\* exact fractions.
GenerateSummary(registered, status, results, execution_time, primary_decision) ==
    LET successful_agents == SuccessfulAgents(results)
        failed_agents == FailedAgents(results)
        insights == GenerateInsights(results, primary_decision)
    IN [total_agents |-> Len(registered),
        successful_agents |-> Len(successful_agents),
        failed_agents |-> Len(failed_agents),
        success_rate |-> <<Len(successful_agents), Len(registered)>>,
        total_execution_time |-> execution_time,
        average_agent_time |-> <<execution_time, Len(registered)>>,
        agent_status |-> status,
        overall_status |-> OverallStatus(successful_agents, failed_agents),
        insights |-> insights,
        recommendations |-> GenerateRecommendations(results, insights)]

\* final_results of run()
FinalResults(results, orchestration_summary, execution_id, execution_time, input_data) ==
    [agent_results |-> results,
     orchestration_summary |-> orchestration_summary,
     execution_metadata |-> [execution_id |-> execution_id,
                             execution_time |-> execution_time,
                             input_data |-> input_data]]

\* ------------------------------------------------------------------------
\* The inputs a run is called with
\* ------------------------------------------------------------------------
ValidInput ==
    InputData(TRUE, FieldNames,
        [risk_score |-> Val("float", 5, <<>>), bias_score |-> Val("float", 2, <<>>),
         risk_level |-> Val("int", 10, <<>>), features |-> Val("list", 0, <<"str", "str">>)])

MissingFeaturesInput ==
    InputData(TRUE, FieldNames \ {"features"},
        [risk_score |-> Val("float", 5, <<>>), bias_score |-> Val("float", 2, <<>>),
         risk_level |-> Val("int", 10, <<>>), features |-> NoneVal])

OutOfRangeInput ==
    InputData(TRUE, FieldNames,
        [risk_score |-> Val("float", 11, <<>>), bias_score |-> Val("float", 2, <<>>),
         risk_level |-> Val("int", 10, <<>>), features |-> Val("list", 0, <<"str", "str">>)])

NotADictInput == InputData(FALSE, {}, [f \in FieldNames |-> NoneVal])

RunInputs == {ValidInput, MissingFeaturesInput, OutOfRangeInput, NotADictInput}

\* The inputs among them that are no valid request.
InvalidRunInputs == {MissingFeaturesInput, OutOfRangeInput, NotADictInput}

VARIABLES
    vin, vout,           \* the validator called alone: its input and its answer
    ain, aout,           \* the aggregation called alone: its results and its summary
    agents,              \* self.agents
    agent_status,        \* self.agent_status
    performance_metrics, \* self.performance_metrics
    execution_history,   \* self.execution_history
    phase,               \* where run() is
    cur,                 \* the arguments and locals of the run in progress
    plan,                \* what each evaluator's evaluate does in the run in progress
    tasks,               \* the state of each evaluator's call in the run in
                         \* progress: none, running, ok, err, or stalled
    invoked,             \* calls of evaluate made by the run in progress
    outcome,             \* what the last run gave its caller
    nruns,               \* runs started since construction
    budget,              \* runs the model still starts
    counters,            \* the counters each evaluator keeps of its own calls
    orphans,             \* evaluate calls still running for runs that have ended
    log,                 \* every history entry stored since the last reset
    clock,               \* the system clock, in tenths of a second
    threads              \* the caller threads that are in run() at the same
                         \* time as others, each with its place and its locals

vars == <<vin, vout, ain, aout, agents, agent_status, performance_metrics, execution_history,
          phase, cur, plan, tasks, invoked, outcome, nruns, budget, log, clock,
          counters, orphans, threads>>

orch == <<agents, agent_status, performance_metrics, execution_history,
          phase, cur, plan, tasks, invoked, outcome, nruns, budget, log, clock,
          counters, orphans, threads>>

Names == SeqToSet(agents)

\* The locals of run() and of the dispatch loops.
Locals(input_data, parallel, continue_on_error) ==
    [input_data |-> input_data, parallel |-> parallel,
     continue_on_error |-> continue_on_error,
     execution_id |-> ExecutionId(0),
     results |-> <<>>, failed_agents |-> <<>>, idx |-> 1, calling |-> FALSE]

IdleCur == Locals(ValidInput, FALSE, TRUE)

\* The arguments of a call of run().
Args(locals) ==
    [input_data |-> locals.input_data, parallel |-> locals.parallel,
     continue_on_error |-> locals.continue_on_error]

\* What a call of run() gave its caller: kind is "returned" with the
\* response, or "raised" with the type and the message of the exception;
\* args are the arguments of that call.
Result(kind, exception, message, response, args) ==
    [kind |-> kind, exception |-> exception, message |-> message,
     response |-> response, args |-> args]

NoOutcome == Result("none", "", <<>>, <<>>, Args(Locals(ValidInput, FALSE, TRUE)))

NoCall == Outcome(FALSE, "", Out({}, "", FALSE), 0)

\* The counters of a BaseAgent after __init__ and after its reset_metrics.
ZeroCounters == [kept |-> TRUE, execution_count |-> 0, error_count |-> 0]

\* The orchestrator takes any object with a name and an evaluate method for
\* an evaluator; one that is no BaseAgent keeps no counters and has no
\* reset_metrics.
NoCounters == [kept |-> FALSE, execution_count |-> 0, error_count |-> 0]

\* The bookkeeping of evaluate: in a BaseAgent a call that returns adds one
\* to execution_count and a call that raises adds one to error_count.
Evaluate(counter, o) ==
    IF ~counter.kept THEN counter
    ELSE IF o.raises
         THEN [counter EXCEPT !.error_count = @ + 1]
         ELSE [counter EXCEPT !.execution_count = @ + 1]

\* agent.reset_metrics(), called if hasattr(agent, 'reset_metrics')
AgentResetMetrics(counter) == IF counter.kept THEN ZeroCounters ELSE counter

\* No summary has been asked for.
NoSummary == [done |-> FALSE, summary |-> <<>>]

\* __init__ with the given list of evaluators, each of which has just been
\* made with the given counters.
ConstructWith(list, counter) ==
    /\ agents = list
    /\ agent_status = [name \in SeqToSet(list) |-> "healthy"]
    /\ performance_metrics = ZeroMetrics
    /\ execution_history = <<>>
    /\ phase = "idle"
    /\ cur = IdleCur
    /\ plan = [name \in SeqToSet(list) |-> NoCall]
    /\ tasks = [name \in SeqToSet(list) |-> "none"]
    /\ invoked = [name \in SeqToSet(list) |-> 0]
    /\ outcome = NoOutcome
    /\ nruns = 0
    /\ log = <<>>
    /\ clock = 0
    /\ counters = [name \in SeqToSet(list) |-> counter]
    /\ orphans = [name \in SeqToSet(list) |-> 0]
    /\ threads = <<>>

\* __init__ with evaluators that keep no counters.
Construct(list) == ConstructWith(list, NoCounters)

Init ==
    /\ \E list \in AgentLists : Construct(list)
    /\ budget = MaxRuns
    /\ vin = ValidInput
    /\ vout = Verdict("none", <<>>)
    /\ ain = <<>>
    /\ aout = NoSummary

\* run(), up to the try block.
StartRun(input_data, parallel, continue_on_error) ==
    /\ phase = "idle"
    /\ budget > 0
    /\ budget' = budget - 1
    /\ nruns' = nruns + 1
    /\ phase' = "validating"
    /\ cur' = [Locals(input_data, parallel, continue_on_error)
                EXCEPT !.execution_id = ExecutionId(clock)]
    /\ invoked' = [name \in Names |-> 0]
    /\ outcome' = NoOutcome
    /\ UNCHANGED <<orphans, counters, clock, threads, vin, vout, ain, aout, agents, agent_status, performance_metrics,
                   execution_history, plan, tasks, log>>

\* An except block that lets the error through without recording the run.
RaiseUnrecorded(msg) ==
    /\ outcome' = Result("raised", "OrchestrationException", OrchestrationMsg(msg), <<>>,
                          Args(cur))
    /\ phase' = "idle"
    /\ cur' = IdleCur
    /\ plan' = [name \in Names |-> NoCall]
    /\ tasks' = [name \in Names |-> "none"]
    /\ orphans' = [name \in Names |->
                      IF tasks[name] = "running" THEN orphans[name] + 1 ELSE orphans[name]]
    /\ UNCHANGED <<performance_metrics, execution_history, log>>

\* An except block that records the run and lets the caller have the error
\* as it was raised, unwrapped.
RaiseOriginal(msg) ==
    /\ performance_metrics' = UpdatePerformanceMetrics(performance_metrics, 0, FALSE)
    /\ execution_history' =
           StoreExecutionHistory(execution_history,
                                 HistoryEntry(cur.execution_id, nruns, 0, FALSE, msg))
    /\ log' = Append(log, HistoryEntry(cur.execution_id, nruns, 0, FALSE, msg))
    /\ outcome' = Result("raised", "Exception", msg, <<>>, Args(cur))
    /\ phase' = "idle"
    /\ cur' = IdleCur
    /\ plan' = [name \in Names |-> NoCall]
    /\ tasks' = [name \in Names |-> "none"]
    /\ orphans' = [name \in Names |->
                      IF tasks[name] = "running" THEN orphans[name] + 1 ELSE orphans[name]]

\* An except block that records the failed run twice, once for the error
\* of the evaluator and once for the error that wraps it.
RaiseRecordedTwice(msg) ==
    /\ performance_metrics' =
           UpdatePerformanceMetrics(
               UpdatePerformanceMetrics(performance_metrics, 0, FALSE), 0, FALSE)
    /\ execution_history' =
           StoreExecutionHistory(
               StoreExecutionHistory(execution_history,
                                     HistoryEntry(cur.execution_id, nruns, 0, FALSE, msg)),
               HistoryEntry(cur.execution_id, nruns, 0, FALSE, msg))
    /\ log' = Append(Append(log, HistoryEntry(cur.execution_id, nruns, 0, FALSE, msg)),
                     HistoryEntry(cur.execution_id, nruns, 0, FALSE, msg))
    /\ outcome' = Result("raised", "OrchestrationException", OrchestrationMsg(msg), <<>>,
                          Args(cur))
    /\ phase' = "idle"
    /\ cur' = IdleCur
    /\ plan' = [name \in Names |-> NoCall]
    /\ tasks' = [name \in Names |-> "none"]
    /\ orphans' = [name \in Names |->
                      IF tasks[name] = "running" THEN orphans[name] + 1 ELSE orphans[name]]

\* The except block of run(): the failed run is recorded with duration 0,
\* then OrchestrationException reaches the caller.  Evaluator calls that
\* are still running in the thread pool keep running.
RaiseFromRun(msg) ==
    /\ performance_metrics' = UpdatePerformanceMetrics(performance_metrics, 0, FALSE)
    /\ execution_history' =
           StoreExecutionHistory(execution_history, HistoryEntry(cur.execution_id, nruns, 0, FALSE, msg))
    /\ log' = Append(log, HistoryEntry(cur.execution_id, nruns, 0, FALSE, msg))
    /\ outcome' = Result("raised", "OrchestrationException", OrchestrationMsg(msg), <<>>,
                          Args(cur))
    /\ phase' = "idle"
    /\ cur' = IdleCur
    /\ plan' = [name \in Names |-> NoCall]
    /\ tasks' = [name \in Names |-> "none"]
    /\ orphans' = [name \in Names |->
                      IF tasks[name] = "running" THEN orphans[name] + 1 ELSE orphans[name]]

\* self._validate_input_data(input_data) in run()
Validate ==
    /\ phase = "validating"
    /\ LET verdict == ValidateInputData(cur.input_data)
       IN IF verdict.kind = "ok"
          THEN /\ phase' = "dispatching"
               /\ UNCHANGED <<performance_metrics, execution_history, log, outcome,
                              cur, plan, tasks, orphans>>
          ELSE RaiseFromRun(ValidationMsg(verdict))
    /\ UNCHANGED <<counters, clock, threads, vin, vout, ain, aout, agents, agent_status, invoked, nruns, budget>>

\* A parallel dispatch that starts the call of the first evaluator alone.
DispatchFirstOnly ==
    /\ phase = "dispatching"
    /\ \E behaviour \in Behaviours(agents) : plan' = behaviour
    /\ IF cur.parallel
       THEN /\ phase' = "parallel"
            /\ tasks' = [name \in Names |->
                            IF name = agents[1] THEN "running" ELSE "none"]
            /\ invoked' = [name \in Names |->
                              IF name = agents[1] THEN invoked[name] + 1
                              ELSE invoked[name]]
       ELSE /\ phase' = "sequential"
            /\ UNCHANGED <<tasks, invoked>>
    /\ UNCHANGED <<orphans, counters, clock, threads, vin, vout, ain, aout, agents, agent_status, performance_metrics,
                   execution_history, cur, outcome, nruns, budget, log>>

\* run() enters _run_parallel or _run_sequential.  behaviour is what each
\* evaluator's evaluate does with this input.  In parallel mode every wrapper task
\* hands its evaluate call to the thread pool before the first await
\* returns.
Dispatch ==
    /\ phase = "dispatching"
    /\ \E behaviour \in Behaviours(agents) : plan' = behaviour
    /\ IF cur.parallel
       THEN /\ phase' = "parallel"
            /\ tasks' = [name \in Names |-> "running"]
            /\ invoked' = [name \in Names |-> invoked[name] + 1]
       ELSE /\ phase' = "sequential"
            /\ UNCHANGED <<tasks, invoked>>
    /\ UNCHANGED <<orphans, counters, clock, threads, vin, vout, ain, aout, agents, agent_status, performance_metrics,
                   execution_history, cur, outcome, nruns, budget, log>>

\* A loop body that raises on every failure, continue_on_error or not.
HandleOutcomeAlwaysRaise(name, o) ==
    IF ~o.raises
    THEN /\ cur' = [cur EXCEPT !.results = DictSet(@, name, SuccessResult(o)),
                               !.idx = @ + 1, !.calling = FALSE]
         /\ agent_status' = [agent_status EXCEPT ![name] = "healthy"]
         /\ UNCHANGED <<performance_metrics, execution_history, log, outcome, phase,
                        plan, tasks, orphans>>
    ELSE /\ agent_status' = [agent_status EXCEPT ![name] = "failed"]
         /\ RaiseFromRun(AgentErrorMsg(name, o.exc))

\* A loop body that notes a failure and goes on to the next evaluator even
\* when continue_on_error is false, leaving the raise to the end of the loop.
HandleOutcomeRaiseLate(name, o) ==
    IF ~o.raises
    THEN /\ cur' = [cur EXCEPT !.results = DictSet(@, name, SuccessResult(o)),
                               !.idx = @ + 1, !.calling = FALSE]
         /\ agent_status' = [agent_status EXCEPT ![name] = "healthy"]
         /\ UNCHANGED <<performance_metrics, execution_history, log, outcome, phase,
                        plan, tasks, orphans>>
    ELSE /\ agent_status' = [agent_status EXCEPT ![name] = "failed"]
         /\ cur' = [cur EXCEPT
                      !.results = IF cur.continue_on_error
                                  THEN DictSet(@, name,
                                           ErrorResult(AgentErrorMsg(name, o.exc)))
                                  ELSE @,
                      !.failed_agents = Append(@, name),
                      !.idx = @ + 1, !.calling = FALSE]
         /\ UNCHANGED <<performance_metrics, execution_history, log, outcome, phase,
                        plan, tasks, orphans>>

\* A loop body that leaves the loop after the first failure it absorbs.
HandleOutcomeBreak(name, o) ==
    IF ~o.raises
    THEN /\ cur' = [cur EXCEPT !.results = DictSet(@, name, SuccessResult(o)),
                               !.idx = @ + 1, !.calling = FALSE]
         /\ agent_status' = [agent_status EXCEPT ![name] = "healthy"]
         /\ UNCHANGED <<performance_metrics, execution_history, log, outcome, phase,
                        plan, tasks, orphans>>
    ELSE /\ agent_status' = [agent_status EXCEPT ![name] = "failed"]
         /\ IF cur.continue_on_error
            THEN /\ cur' = [cur EXCEPT
                              !.results = DictSet(@, name,
                                              ErrorResult(AgentErrorMsg(name, o.exc))),
                              !.failed_agents = Append(@, name),
                              !.idx = Len(agents) + 1, !.calling = FALSE]
                 /\ UNCHANGED <<performance_metrics, execution_history, log, outcome,
                                phase, plan, tasks, orphans>>
            ELSE RaiseFromRun(AgentErrorMsg(name, o.exc))

\* A loop body that marks the evaluator healthy whether it returned or
\* raised.
HandleOutcomeStatusHealthy(name, o) ==
    IF ~o.raises
    THEN /\ cur' = [cur EXCEPT !.results = DictSet(@, name, SuccessResult(o)),
                               !.idx = @ + 1, !.calling = FALSE]
         /\ agent_status' = [agent_status EXCEPT ![name] = "healthy"]
         /\ UNCHANGED <<performance_metrics, execution_history, log, outcome, phase,
                        plan, tasks, orphans>>
    ELSE /\ agent_status' = [agent_status EXCEPT ![name] = "healthy"]
         /\ IF cur.continue_on_error
            THEN /\ cur' = [cur EXCEPT
                              !.results = DictSet(@, name,
                                              ErrorResult(AgentErrorMsg(name, o.exc))),
                              !.failed_agents = Append(@, name),
                              !.idx = @ + 1, !.calling = FALSE]
                 /\ UNCHANGED <<performance_metrics, execution_history, log, outcome,
                                phase, plan, tasks, orphans>>
            ELSE RaiseFromRun(AgentErrorMsg(name, o.exc))

\* The loop body shared by _run_sequential and _async_run_agents once the
\* call of the evaluator at cur.idx has ended with outcome o.
HandleOutcome(name, o) ==
    IF ~o.raises
    THEN /\ cur' = [cur EXCEPT !.results = DictSet(@, name, SuccessResult(o)),
                               !.idx = @ + 1, !.calling = FALSE]
         /\ agent_status' = [agent_status EXCEPT ![name] = "healthy"]
         /\ UNCHANGED <<performance_metrics, execution_history, log, outcome, phase,
                        plan, tasks, orphans>>
    ELSE /\ agent_status' = [agent_status EXCEPT ![name] = "failed"]
         /\ IF cur.continue_on_error
            THEN /\ cur' = [cur EXCEPT
                              !.results = DictSet(@, name,
                                              ErrorResult(AgentErrorMsg(name, o.exc))),
                              !.failed_agents = Append(@, name),
                              !.idx = @ + 1, !.calling = FALSE]
                 /\ UNCHANGED <<performance_metrics, execution_history, log, outcome,
                                phase, plan, tasks, orphans>>
            ELSE RaiseFromRun(AgentErrorMsg(name, o.exc))

\* _run_sequential: result = agent.evaluate(input_data) is entered.
SeqCall ==
    /\ phase = "sequential"
    /\ ~cur.calling
    /\ cur.idx <= Len(agents)
    /\ invoked' = [invoked EXCEPT ![agents[cur.idx]] = @ + 1]
    /\ cur' = [cur EXCEPT !.calling = TRUE]
    /\ UNCHANGED <<orphans, counters, clock, threads, vin, vout, ain, aout, agents, agent_status, performance_metrics,
                   execution_history, phase, plan, tasks, outcome, nruns, budget, log>>

\* _run_sequential: the call returns or raises.
SeqReturn ==
    /\ phase = "sequential"
    /\ cur.calling
    /\ tasks[agents[cur.idx]] # "stalled"
    /\ counters' = [counters EXCEPT ![agents[cur.idx]] =
                       Evaluate(@, plan[agents[cur.idx]])]
    /\ HandleOutcome(agents[cur.idx], plan[agents[cur.idx]])
    /\ UNCHANGED <<clock, threads, vin, vout, ain, aout, agents, invoked, nruns, budget>>

\* _run_sequential after the loop.
SeqDone ==
    /\ phase = "sequential"
    /\ ~cur.calling
    /\ cur.idx > Len(agents)
    /\ IF cur.failed_agents # <<>> /\ ~cur.continue_on_error
       THEN RaiseFromRun(<<"Agents failed">> \o cur.failed_agents)
       ELSE /\ phase' = "aggregating"
            /\ UNCHANGED <<performance_metrics, execution_history, log, outcome, cur,
                           plan, tasks, orphans>>
    /\ UNCHANGED <<counters, clock, threads, vin, vout, ain, aout, agents, agent_status, invoked, nruns, budget>>

\* A thread pool in which a call that raises never comes back.
WorkerFinishUnlessRaises(name) ==
    /\ phase = "parallel"
    /\ tasks[name] = "running"
    /\ ~plan[name].raises
    /\ tasks' = [tasks EXCEPT ![name] = "ok"]
    /\ counters' = [counters EXCEPT ![name] = Evaluate(@, plan[name])]
    /\ UNCHANGED <<orphans, clock, threads, vin, vout, ain, aout, agents, agent_status, performance_metrics,
                   execution_history, phase, cur, plan, invoked, outcome, nruns,
                   budget, log>>

\* The evaluate call of a wrapper task of the run in progress ends in the
\* thread pool.
WorkerFinish(name) ==
    /\ phase = "parallel"
    /\ tasks[name] = "running"
    /\ tasks' = [tasks EXCEPT ![name] = IF plan[name].raises THEN "err" ELSE "ok"]
    /\ counters' = [counters EXCEPT ![name] = Evaluate(@, plan[name])]
    /\ UNCHANGED <<orphans, clock, threads, vin, vout, ain, aout, agents, agent_status, performance_metrics,
                   execution_history, phase, cur, plan, invoked, outcome, nruns,
                   budget, log>>

\* An evaluate call left in the thread pool by a run that has raised ends,
\* as the evaluator pleases; nobody reads its result.
OrphanFinish(name) ==
    /\ orphans[name] > 0
    /\ orphans' = [orphans EXCEPT ![name] = @ - 1]
    /\ IF counters[name].kept
       THEN \E o \in Outcomes(name) : counters' = [counters EXCEPT ![name] = Evaluate(@, o)]
       ELSE UNCHANGED counters
    /\ UNCHANGED <<clock, threads, vin, vout, ain, aout, agents, agent_status, performance_metrics,
                   execution_history, phase, cur, plan, tasks, invoked, outcome, nruns,
                   budget, log>>

\* A loop that raises for whichever failed call it sees finished, in
\* declaration order or not.
ParAwaitFirstToComplete ==
    /\ phase = "parallel"
    /\ cur.idx <= Len(agents)
    /\ \/ /\ tasks[agents[cur.idx]] \in {"ok", "err"}
          /\ HandleOutcome(agents[cur.idx], plan[agents[cur.idx]])
       \/ /\ ~cur.continue_on_error
          /\ \E name \in Names :
                /\ tasks[name] = "err"
                /\ HandleOutcome(name, plan[name])
    /\ UNCHANGED <<counters, clock, threads, vin, vout, ain, aout, agents, invoked, nruns, budget>>

\* _async_run_agents: await task, for the tasks in declaration order.
ParAwait ==
    /\ phase = "parallel"
    /\ cur.idx <= Len(agents)
    /\ tasks[agents[cur.idx]] \in {"ok", "err"}
    /\ HandleOutcome(agents[cur.idx], plan[agents[cur.idx]])
    /\ UNCHANGED <<counters, clock, threads, vin, vout, ain, aout, agents, invoked, nruns, budget>>

\* _async_run_agents returns results; the event loop is closed.
ParDone ==
    /\ phase = "parallel"
    /\ cur.idx > Len(agents)
    /\ phase' = "aggregating"
    /\ tasks' = [name \in Names |-> "none"]
    /\ UNCHANGED <<orphans, counters, clock, threads, vin, vout, ain, aout, agents, agent_status, performance_metrics,
                   execution_history, cur, plan, invoked, outcome, nruns, budget, log>>

\* run() from "Calculate execution metrics" to return final_results.
\* execution_time is the duration the clock gives; primary_decision is the
\* choice max() makes among the most frequent decisions.
Aggregate(execution_time) ==
    /\ phase = "aggregating"
    /\ IF SummaryRaises(agents)
       THEN RaiseFromRun(<<"division by zero">>)
       ELSE /\ \E primary_decision \in PrimaryDecisionChoices(cur.results) :
                  LET orchestration_summary ==
                          GenerateSummary(agents, agent_status, cur.results,
                                          execution_time, primary_decision)
                  IN outcome' = Result("returned", "", <<>>,
                                       FinalResults(cur.results, orchestration_summary,
                                                    cur.execution_id, execution_time,
                                                    cur.input_data),
                                       Args(cur))
            /\ performance_metrics' =
                   UpdatePerformanceMetrics(performance_metrics, execution_time, TRUE)
            /\ execution_history' =
                   StoreExecutionHistory(execution_history,
                       HistoryEntry(cur.execution_id, nruns, execution_time, TRUE, <<>>))
            /\ log' = Append(log, HistoryEntry(cur.execution_id, nruns, execution_time,
                                               TRUE, <<>>))
            /\ phase' = "idle"
            /\ cur' = IdleCur
            /\ plan' = [name \in Names |-> NoCall]
            /\ UNCHANGED <<tasks, orphans>>
    /\ UNCHANGED <<counters, clock, threads, vin, vout, ain, aout, agents, agent_status, invoked,
                   nruns, budget>>

\* A reset that leaves the evaluators' own counters alone.
ResetMetricsKeepCounters ==
    /\ phase = "idle"
    /\ performance_metrics' = ZeroMetrics
    /\ execution_history' = <<>>
    /\ log' = <<>>
    /\ UNCHANGED <<orphans, counters, clock, threads, vin, vout, ain, aout, agents, agent_status,
                   phase, cur, plan, tasks, invoked, outcome, nruns, budget>>

\* A reset that also marks every evaluator healthy again.
ResetMetricsAndStatus ==
    /\ phase = "idle"
    /\ performance_metrics' = ZeroMetrics
    /\ execution_history' = <<>>
    /\ log' = <<>>
    /\ counters' = [name \in Names |-> AgentResetMetrics(counters[name])]
    /\ agent_status' = [name \in Names |-> "healthy"]
    /\ UNCHANGED <<orphans, clock, threads, vin, vout, ain, aout, agents, phase, cur,
                   plan, tasks, invoked, outcome, nruns, budget>>

\* reset_metrics
ResetMetrics ==
    /\ phase = "idle"
    /\ performance_metrics' = ZeroMetrics
    /\ execution_history' = <<>>
    /\ log' = <<>>
    /\ counters' = [name \in Names |-> AgentResetMetrics(counters[name])]
    /\ UNCHANGED <<orphans, clock, threads, vin, vout, ain, aout, agents, agent_status, phase, cur,
                   plan, tasks, invoked, outcome, nruns, budget>>

Next ==
    \/ \E input_data \in RunInputs, parallel \in BOOLEAN, continue_on_error \in BOOLEAN :
          StartRun(input_data, parallel, continue_on_error)
    \/ Validate
    \/ Dispatch
    \/ SeqCall
    \/ SeqReturn
    \/ SeqDone
    \/ \E name \in Names : WorkerFinish(name)
    \/ \E name \in Names : OrphanFinish(name)
    \/ ParAwait
    \/ ParDone
    \/ \E execution_time \in ExecTimes : Aggregate(execution_time)
    \/ ResetMetrics

Spec == Init /\ [][Next]_vars

\* ------------------------------------------------------------------------
\* An orchestrator that has been running for a while
\* ------------------------------------------------------------------------
\* The history after WarmRuns runs that each returned after one second.
WarmHistory == [i \in 1..WarmRuns |-> HistoryEntry(ExecutionId(0), i, 10, TRUE, <<>>)]

WarmMetrics ==
    [total_executions |-> WarmRuns, successful_executions |-> WarmRuns,
     failed_executions |-> 0, average_execution_time |-> Frac(10 * WarmRuns, WarmRuns)]

\* The state between two runs of an orchestrator whose first WarmRuns runs
\* were sequential runs of a valid input in which no evaluator raised.
InitWarm ==
    /\ \E list \in {SubSeq(AllNames, 1, n) : n \in 1..WarmAgents} :
          /\ agents = list
          /\ agent_status = [name \in SeqToSet(list) |-> "healthy"]
          /\ plan = [name \in SeqToSet(list) |-> NoCall]
          /\ tasks = [name \in SeqToSet(list) |-> "none"]
          /\ invoked = [name \in SeqToSet(list) |-> 0]
          /\ counters = [name \in SeqToSet(list) |-> NoCounters]
          /\ orphans = [name \in SeqToSet(list) |-> 0]
    /\ performance_metrics = WarmMetrics
    /\ execution_history = WarmHistory
    /\ log = WarmHistory
    /\ phase = "idle"
    /\ cur = IdleCur
    /\ outcome = NoOutcome
    /\ nruns = WarmRuns
    /\ clock = 0
    /\ threads = <<>>
    /\ budget = MaxRuns
    /\ vin = ValidInput
    /\ vout = Verdict("none", <<>>)
    /\ ain = <<>>
    /\ aout = NoSummary

SpecWarm == InitWarm /\ [][Next]_vars

\* The runs that lead from construction to the state of InitWarm: only
\* sequential runs of the valid input, no evaluator raising, one second each.
InitReplay ==
    /\ \E list \in {SubSeq(AllNames, 1, n) : n \in 1..WarmAgents} : Construct(list)
    /\ budget = WarmRuns
    /\ vin = ValidInput
    /\ vout = Verdict("none", <<>>)
    /\ ain = <<>>
    /\ aout = NoSummary

ReplayStep ==
    /\ cur'.input_data = ValidInput /\ ~cur'.parallel
    /\ \A name \in Names : ~plan'[name].raises
    /\ outcome'.kind = "returned" =>
          outcome'.response.execution_metadata.execution_time = 10
    /\ log = <<>> \/ log' # <<>>

SpecReplay == InitReplay /\ [][Next /\ ReplayStep]_vars

\* After the WarmRuns runs of SpecReplay the orchestrator is in the state
\* SpecWarm starts from.
ReplayReachesWarm ==
    (budget = 0 /\ phase = "idle") =>
        /\ performance_metrics = WarmMetrics
        /\ execution_history = WarmHistory
        /\ log = WarmHistory
        /\ nruns = WarmRuns
        /\ cur = IdleCur
        /\ \A name \in Names :
              /\ agent_status[name] = "healthy"
              /\ plan[name] = NoCall
              /\ tasks[name] = "none"
              /\ counters[name] = NoCounters
              /\ orphans[name] = 0

ReplayNotFinished == ~(budget = 0 /\ phase = "idle")

\* ------------------------------------------------------------------------
\* The orchestrator while time passes
\* ------------------------------------------------------------------------
\* Spec and SpecWarm follow the orchestrator between two readings of the
\* clock that give the same time; here the clock advances, at any moment of
\* a run and between runs.
Tick ==
    /\ clock + TickStep <= MaxClock
    /\ clock' = clock + TickStep
    /\ UNCHANGED <<threads, vin, vout, ain, aout, agents, agent_status, performance_metrics,
                   execution_history, phase, cur, plan, tasks, invoked, outcome,
                   nruns, budget, log, counters, orphans>>

InitClock ==
    /\ \E list \in {SubSeq(AllNames, 1, n) : n \in 1..SmallAgents} : Construct(list)
    /\ budget = MaxRuns
    /\ vin = ValidInput
    /\ vout = Verdict("none", <<>>)
    /\ ain = <<>>
    /\ aout = NoSummary

NextClock == Next \/ Tick

SpecClock == InitClock /\ [][NextClock]_vars

\* ------------------------------------------------------------------------
\* An orchestrator of BaseAgent evaluators, which count their own calls
\* ------------------------------------------------------------------------
InitCounters ==
    /\ \E list \in {SubSeq(AllNames, 1, n) : n \in 1..SmallAgents} :
          ConstructWith(list, ZeroCounters)
    /\ budget = MaxRuns
    /\ vin = ValidInput
    /\ vout = Verdict("none", <<>>)
    /\ ain = <<>>
    /\ aout = NoSummary

SpecCounters == InitCounters /\ [][Next]_vars

\* ------------------------------------------------------------------------
\* Orchestrators of any list of evaluators, the empty list included
\* ------------------------------------------------------------------------
InitAnyList ==
    /\ \E list \in {SubSeq(AllNames, 1, n) : n \in 0..SmallAgents} : Construct(list)
    /\ budget = MaxRuns
    /\ vin = ValidInput
    /\ vout = Verdict("none", <<>>)
    /\ ain = <<>>
    /\ aout = NoSummary

SpecAnyList == InitAnyList /\ [][Next]_vars

\* ------------------------------------------------------------------------
\* The orchestrator of the four standard evaluators
\* ------------------------------------------------------------------------
\* The four evaluators, registered as the API does or as the test suite does.
InitStandard ==
    /\ \E list \in {AllNames, TestNames} : Construct(list)
    /\ budget = StandardRuns
    /\ vin = ValidInput
    /\ vout = Verdict("none", <<>>)
    /\ ain = <<>>
    /\ aout = NoSummary

SpecStandard == InitStandard /\ [][Next]_vars

\* ------------------------------------------------------------------------
\* Evaluators that can stall
\* ------------------------------------------------------------------------
\* The call of evaluate in progress for the evaluator hangs: it will never
\* return or raise.  In sequential mode it is the call the loop is in, in
\* parallel mode a call running in the thread pool.
Stall(name) ==
    /\ \/ phase = "parallel" /\ tasks[name] = "running"
       \/ /\ phase = "sequential" /\ cur.calling
          /\ agents[cur.idx] = name /\ tasks[name] # "stalled"
    /\ tasks' = [tasks EXCEPT ![name] = "stalled"]
    /\ UNCHANGED <<threads, vin, vout, ain, aout, agents, agent_status, performance_metrics,
                   execution_history, phase, cur, plan, invoked, outcome, nruns,
                   budget, log, clock, counters, orphans>>

InitStall ==
    /\ \E list \in {SubSeq(AllNames, 1, n) : n \in 1..SmallAgents} : Construct(list)
    /\ budget = MaxRuns
    /\ vin = ValidInput
    /\ vout = Verdict("none", <<>>)
    /\ ain = <<>>
    /\ aout = NoSummary

NextStall == Next \/ \E name \in Names : Stall(name)

SpecStall == InitStall /\ [][NextStall]_vars

\* ------------------------------------------------------------------------
\* The aggregation called alone on every result map of a bounded universe
\* ------------------------------------------------------------------------
\* The lists of evaluators of the orchestrators whose aggregation is called.
Rosters ==
    {SubSeq(AllNames, 1, n) : n \in 1..AggAgents}
    \cup {SubSeq(TestNames, 1, n) : n \in 1..AggAgents}

\* What an evaluator can give the dispatch loop: it raises, or it returns
\* an open record with or without 'decision' and 'compliant', after one
\* second or after one and a half.
AnyOutcomes ==
    {Outcome(TRUE, "boom", Out({}, "", FALSE), 0)}
    \cup
    UNION { { Outcome(FALSE, "", Out(keys, d, c), t) :
                d \in (IF "decision" \in keys THEN {"Approve", "Reject"} ELSE {""}),
                c \in (IF "compliant" \in keys THEN BOOLEAN ELSE {FALSE}),
                t \in {SlowThreshold, SlowThreshold + 5} } :
            keys \in SUBSET {"decision", "compliant"} }

\* The results the dispatch loops build under continue_on_error when the
\* evaluators of the list end as os says: one entry per evaluator, in
\* declaration order.
ResultsOf(list, os) ==
    [i \in 1..Len(list) |->
        [k |-> list[i],
         v |-> IF os[i].raises
               THEN ErrorResult(AgentErrorMsg(list[i], os[i].exc))
               ELSE SuccessResult(os[i])]]

AllResults(list) == {ResultsOf(list, os) : os \in [1..Len(list) -> AnyOutcomes]}

InitAggregate ==
    /\ \E list \in Rosters :
          /\ Construct(list)
          /\ ain \in AllResults(list)
    /\ aout = NoSummary
    /\ budget = 0
    /\ vin = ValidInput
    /\ vout = Verdict("none", <<>>)

\* One call of _generate_summary on the drawn results.
CallGenerateSummary ==
    /\ ~aout.done
    /\ \E execution_time \in ExecTimes, primary_decision \in PrimaryDecisionChoices(ain) :
          aout' = [done |-> TRUE,
                   summary |-> GenerateSummary(agents, agent_status, ain, execution_time,
                                               primary_decision)]
    /\ UNCHANGED <<vin, vout, ain, orch>>

SpecAggregate == InitAggregate /\ [][CallGenerateSummary]_vars

\* ------------------------------------------------------------------------
\* The validator called alone on every input of the bounded universe
\* ------------------------------------------------------------------------
InitValidate ==
    /\ vin \in AllInputs
    /\ vout = Verdict("none", <<>>)
    /\ ain = <<>>
    /\ aout = NoSummary
    /\ Construct(SubSeq(AllNames, 1, 1))
    /\ budget = 0

\* One call of _validate_input_data on the drawn input.
CallValidate ==
    /\ vout.kind = "none"
    /\ vout' = ValidateInputData(vin)
    /\ UNCHANGED <<vin, ain, aout, orch>>

SpecValidate == InitValidate /\ [][CallValidate]_vars

\* ------------------------------------------------------------------------
\* Calls of run() that overlap on one orchestrator
\* ------------------------------------------------------------------------
\* run() takes no lock.  Caller threads that are in run() at the same time
\* interleave between the reads and the writes of the statements of
\* _update_performance_metrics and _store_execution_history; the language
\* makes none of these statements atomic except list.append.  What a
\* thread does before it records (validation, dispatch, aggregation) is
\* folded into the step that says how its run ends; its writes to
\* agent_status are left out here.  There are two caller threads.
Threads == {1, 2}

\* A thread in run(): pc is the statement it is at, success and
\* execution_time are the arguments of its record, n and total_time the
\* values it has read, cut the slice it has taken of the history, and
\* overlapped tells whether another thread was in run() when it entered.
Thread(pc, success, execution_time, overlapped) ==
    [pc |-> pc, success |-> success, execution_time |-> execution_time,
     n |-> 0, total_time |-> <<0, 1>>, cut |-> <<>>, overlapped |-> overlapped]

At(t, pc) == t \in DOMAIN threads /\ threads[t].pc = pc

Goto(t, pc) == [threads EXCEPT ![t].pc = pc]

\* The thread enters run() and gets to the record: after line 49 with the
\* measured execution_time when the try block succeeded, in the except
\* block with 0 when it raised.
EnterRun(t, success, execution_time) ==
    /\ t \notin DOMAIN threads
    /\ success \/ execution_time = 0
    /\ ~success \/ execution_time > 0
    /\ threads' = [u \in DOMAIN threads \cup {t} |->
                      IF u = t
                      THEN Thread("total_read", success, execution_time,
                                  \E v \in DOMAIN threads : threads[v].pc # "done")
                      ELSE threads[u]]
    /\ nruns' = nruns + 1
    /\ UNCHANGED <<vin, vout, ain, aout, agents, agent_status, performance_metrics,
                   execution_history, phase, cur, plan, tasks, invoked, outcome,
                   budget, log, clock, counters, orphans>>

\* self.performance_metrics['total_executions'] += 1, the read
TotalRead(t) ==
    /\ At(t, "total_read")
    /\ threads' = [threads EXCEPT ![t].n = performance_metrics.total_executions,
                                  ![t].pc = "total_write"]
    /\ UNCHANGED <<vin, vout, ain, aout, agents, agent_status, performance_metrics,
                   execution_history, phase, cur, plan, tasks, invoked, outcome,
                   nruns, budget, log, clock, counters, orphans>>

\* An increment that writes the value it read back unchanged.
TotalWriteStale(t) ==
    /\ At(t, "total_write")
    /\ performance_metrics' =
           [performance_metrics EXCEPT !.total_executions = threads[t].n]
    /\ threads' = Goto(t, "count_read")
    /\ UNCHANGED <<vin, vout, ain, aout, agents, agent_status,
                   execution_history, phase, cur, plan, tasks, invoked, outcome,
                   nruns, budget, log, clock, counters, orphans>>

\* self.performance_metrics['total_executions'] += 1, the write
TotalWrite(t) ==
    /\ At(t, "total_write")
    /\ performance_metrics' =
           [performance_metrics EXCEPT !.total_executions = threads[t].n + 1]
    /\ threads' = Goto(t, "count_read")
    /\ UNCHANGED <<vin, vout, ain, aout, agents, agent_status,
                   execution_history, phase, cur, plan, tasks, invoked, outcome,
                   nruns, budget, log, clock, counters, orphans>>

\* successful_executions += 1 or failed_executions += 1, the read
CountRead(t) ==
    /\ At(t, "count_read")
    /\ threads' = [threads EXCEPT
                      ![t].n = IF threads[t].success
                               THEN performance_metrics.successful_executions
                               ELSE performance_metrics.failed_executions,
                      ![t].pc = "count_write"]
    /\ UNCHANGED <<vin, vout, ain, aout, agents, agent_status, performance_metrics,
                   execution_history, phase, cur, plan, tasks, invoked, outcome,
                   nruns, budget, log, clock, counters, orphans>>

\* successful_executions += 1 or failed_executions += 1, the write
CountWrite(t) ==
    /\ At(t, "count_write")
    /\ performance_metrics' =
           IF threads[t].success
           THEN [performance_metrics EXCEPT !.successful_executions = threads[t].n + 1]
           ELSE [performance_metrics EXCEPT !.failed_executions = threads[t].n + 1]
    /\ threads' = Goto(t, "average_read")
    /\ UNCHANGED <<vin, vout, ain, aout, agents, agent_status,
                   execution_history, phase, cur, plan, tasks, invoked, outcome,
                   nruns, budget, log, clock, counters, orphans>>

\* total_time = average_execution_time * ..., the read of the average
AverageRead(t) ==
    /\ At(t, "average_read")
    /\ threads' = [threads EXCEPT
                      ![t].total_time = performance_metrics.average_execution_time,
                      ![t].pc = "total_time"]
    /\ UNCHANGED <<vin, vout, ain, aout, agents, agent_status, performance_metrics,
                   execution_history, phase, cur, plan, tasks, invoked, outcome,
                   nruns, budget, log, clock, counters, orphans>>

\* total_time = ... * (total_executions - 1) + execution_time, the read of
\* the count and the sum
TotalTime(t) ==
    /\ At(t, "total_time")
    /\ LET avg == threads[t].total_time
           n == performance_metrics.total_executions
       IN threads' = [threads EXCEPT
                         ![t].total_time =
                             <<avg[1] * (n - 1) + threads[t].execution_time * avg[2],
                               avg[2]>>,
                         ![t].pc = "quotient"]
    /\ UNCHANGED <<vin, vout, ain, aout, agents, agent_status, performance_metrics,
                   execution_history, phase, cur, plan, tasks, invoked, outcome,
                   nruns, budget, log, clock, counters, orphans>>

\* total_time / total_executions, the read of the count
Quotient(t) ==
    /\ At(t, "quotient")
    /\ threads' = [threads EXCEPT ![t].n = performance_metrics.total_executions,
                                  ![t].pc = "average_write"]
    /\ UNCHANGED <<vin, vout, ain, aout, agents, agent_status, performance_metrics,
                   execution_history, phase, cur, plan, tasks, invoked, outcome,
                   nruns, budget, log, clock, counters, orphans>>

\* average_execution_time = total_time / total_executions, the write
AverageWrite(t) ==
    /\ At(t, "average_write")
    /\ performance_metrics' =
           [performance_metrics EXCEPT
              !.average_execution_time =
                  Frac(threads[t].total_time[1], threads[t].total_time[2] * threads[t].n)]
    /\ threads' = Goto(t, "append")
    /\ UNCHANGED <<vin, vout, ain, aout, agents, agent_status,
                   execution_history, phase, cur, plan, tasks, invoked, outcome,
                   nruns, budget, log, clock, counters, orphans>>

\* The entry the thread stores.
ThreadEntry(t) ==
    HistoryEntry(ExecutionId(clock), nruns, threads[t].execution_time,
                 threads[t].success,
                 IF threads[t].success THEN <<>> ELSE <<"boom">>)

\* self.execution_history.append(history_entry)
HistoryAppend(t) ==
    /\ At(t, "append")
    /\ execution_history' = Append(execution_history, ThreadEntry(t))
    /\ log' = Append(log, ThreadEntry(t))
    /\ threads' = Goto(t, "length")
    /\ UNCHANGED <<vin, vout, ain, aout, agents, agent_status, performance_metrics,
                   phase, cur, plan, tasks, invoked, outcome,
                   nruns, budget, clock, counters, orphans>>

\* if len(self.execution_history) > 100; run() is left when it is not
HistoryLength(t) ==
    /\ At(t, "length")
    /\ threads' = Goto(t, IF Len(execution_history) > HistoryLimit
                          THEN "slice" ELSE "done")
    /\ UNCHANGED <<vin, vout, ain, aout, agents, agent_status, performance_metrics,
                   execution_history, phase, cur, plan, tasks, invoked, outcome,
                   nruns, budget, log, clock, counters, orphans>>

\* self.execution_history[-100:], the slice
HistorySlice(t) ==
    /\ At(t, "slice")
    /\ threads' = [threads EXCEPT
                      ![t].cut =
                          IF Len(execution_history) > HistoryLimit
                          THEN SubSeq(execution_history,
                                      Len(execution_history) - HistoryLimit + 1,
                                      Len(execution_history))
                          ELSE execution_history,
                      ![t].pc = "rebind"]
    /\ UNCHANGED <<vin, vout, ain, aout, agents, agent_status, performance_metrics,
                   execution_history, phase, cur, plan, tasks, invoked, outcome,
                   nruns, budget, log, clock, counters, orphans>>

\* self.execution_history = ..., the assignment; run() is left
HistoryRebind(t) ==
    /\ At(t, "rebind")
    /\ execution_history' = threads[t].cut
    /\ threads' = [threads EXCEPT ![t].cut = <<>>, ![t].pc = "done"]
    /\ UNCHANGED <<vin, vout, ain, aout, agents, agent_status, performance_metrics,
                   phase, cur, plan, tasks, invoked, outcome,
                   nruns, budget, log, clock, counters, orphans>>

\* A new orchestrator of one evaluator, or one that has made WarmRuns runs.
InitOverlap ==
    \/ InitWarm
    \/ /\ Construct(SubSeq(AllNames, 1, 1))
       /\ budget = 0
       /\ vin = ValidInput
       /\ vout = Verdict("none", <<>>)
       /\ ain = <<>>
       /\ aout = NoSummary

NextOverlap ==
    \/ \E t \in Threads, success \in BOOLEAN, execution_time \in ExecTimes \cup {0} :
          EnterRun(t, success, execution_time)
    \/ \E t \in Threads : TotalRead(t)
    \/ \E t \in Threads : TotalWrite(t)
    \/ \E t \in Threads : CountRead(t)
    \/ \E t \in Threads : CountWrite(t)
    \/ \E t \in Threads : AverageRead(t)
    \/ \E t \in Threads : TotalTime(t)
    \/ \E t \in Threads : Quotient(t)
    \/ \E t \in Threads : AverageWrite(t)
    \/ \E t \in Threads : HistoryAppend(t)
    \/ \E t \in Threads : HistoryLength(t)
    \/ \E t \in Threads : HistorySlice(t)
    \/ \E t \in Threads : HistoryRebind(t)

SpecOverlap == InitOverlap /\ [][NextOverlap]_vars

\* ------------------------------------------------------------------------
\* Runs whose evaluator calls all come back
\* ------------------------------------------------------------------------
\* The thread that is in run() keeps running: each step of run() that can
\* be taken is taken in the end.  Every call of evaluate that was made
\* comes back: the sequential call returns or raises, and a call running
\* in the thread pool finishes.  Nothing obliges a caller to start a run or
\* to reset.
Fairness ==
    /\ WF_vars(Validate)
    /\ WF_vars(Dispatch)
    /\ WF_vars(SeqCall)
    /\ WF_vars(SeqReturn)
    /\ WF_vars(SeqDone)
    /\ WF_vars(\E name \in Names : WorkerFinish(name))
    /\ WF_vars(ParAwait)
    /\ WF_vars(ParDone)
    /\ WF_vars(\E execution_time \in ExecTimes : Aggregate(execution_time))

SpecLive == InitAnyList /\ [][Next]_vars /\ Fairness

\* ------------------------------------------------------------------------
\* Properties
\* ------------------------------------------------------------------------
Ended == outcome.kind # "none"

AgentResults == outcome.response.agent_results

Summary == outcome.response.orchestration_summary

C2_ValidationFailsFast ==
    /\ (phase # "idle" /\ cur.input_data \in InvalidRunInputs) =>
          /\ phase = "validating"
          /\ \A name \in Names : invoked[name] = 0
    /\ (Ended /\ outcome.args.input_data \in InvalidRunInputs) =>
          /\ outcome.kind = "raised"
          /\ \A name \in Names : invoked[name] = 0

\* A parallel run of the input without 'features' has ended and no
\* evaluator was invoked.
C2_Witness ==
    /\ outcome.kind = "raised"
    /\ outcome.args.input_data = MissingFeaturesInput
    /\ outcome.args.parallel
    /\ Len(agents) = 3
    /\ \A name \in Names : invoked[name] = 0

\* C3: the step that ends the validation of an input that fails it goes
\* straight to the end of the run: it appends one history entry with
\* execution_time 0 and success false, adds one to failed_executions and to
\* total_executions, leaves successful_executions alone, and the caller
\* gets an OrchestrationException.
C3_ValidationFailureRecorded ==
    [][ (phase = "validating" /\ phase' # "validating"
         /\ cur.input_data \in InvalidRunInputs) =>
            /\ phase' = "idle"
            /\ outcome'.kind = "raised"
            /\ outcome'.exception = "OrchestrationException"
            /\ performance_metrics'.failed_executions =
                   performance_metrics.failed_executions + 1
            /\ performance_metrics'.total_executions =
                   performance_metrics.total_executions + 1
            /\ performance_metrics'.successful_executions =
                   performance_metrics.successful_executions
            /\ Len(log') = Len(log) + 1
            /\ SubSeq(log', 1, Len(log)) = log
            /\ log'[Len(log')].execution_time = 0
            /\ ~log'[Len(log')].success
            /\ execution_history' # <<>>
            /\ execution_history'[Len(execution_history')] = log'[Len(log')]
            /\ Len(execution_history') <= Len(execution_history) + 1
            /\ Len(execution_history') >= Len(execution_history)
      ]_vars

\* The second run failed validation after a first run that returned: two
\* runs are counted, one of them failed, and the last history entry is the
\* failed run's.
C3_Witness ==
    /\ outcome.kind = "raised"
    /\ outcome.args.input_data \in InvalidRunInputs
    /\ performance_metrics.total_executions = 2
    /\ performance_metrics.failed_executions = 1
    /\ Len(execution_history) = 2
    /\ execution_history[2].execution_time = 0
    /\ ~execution_history[2].success

\* What the claim C4 takes for a number, an integer and a string: bool is
\* Python's subclass of int and counts with the integers.
ClaimNumeric(value) == value.t \in {"float", "int", "bool"}

ClaimInteger(value) == value.t \in {"int", "bool"}

ClaimAccepts(input_data) ==
    /\ input_data.isdict
    /\ FieldNames \subseteq input_data.present
    /\ ClaimNumeric(input_data.val["risk_score"])
    /\ 0 <= input_data.val["risk_score"].n /\ input_data.val["risk_score"].n <= 10
    /\ ClaimNumeric(input_data.val["bias_score"])
    /\ 0 <= input_data.val["bias_score"].n /\ input_data.val["bias_score"].n <= 10
    /\ ClaimInteger(input_data.val["risk_level"])
    /\ input_data.val["risk_level"].n \in {0, 10, 20}
    /\ input_data.val["features"].t \in {"list", "tuple"}
    /\ input_data.val["features"].items # <<>>
    /\ \A i \in 1..Len(input_data.val["features"].items) :
          input_data.val["features"].items[i] = "str"

\* C4: the validator accepts an input exactly when it is a record with all
\* of risk_score, bias_score, risk_level and features, the two scores
\* numbers in [0,1] (the integers 0 and 1 included), risk_level an integer
\* in {0,1,2} and features a non-empty sequence of strings.
C4_ValidatorAcceptsExactlyTheSpecified ==
    vout.kind # "none" => ((vout.kind = "ok") <=> ClaimAccepts(vin))

\* C4, the two directions apart.  Every input the validator accepts that
\* the claim rejects has a list of features with an element that is no
\* string; every input it rejects that the claim accepts has an integer
\* score or a tuple of features.
C4_WhereTheValidatorDiffers ==
    vout.kind # "none" =>
        /\ (vout.kind = "ok" /\ ~ClaimAccepts(vin)) =>
              \E i \in 1..Len(vin.val["features"].items) :
                 vin.val["features"].items[i] # "str"
        /\ (vout.kind # "ok" /\ ClaimAccepts(vin)) =>
              \/ vin.val["risk_score"].t \in {"int", "bool"}
              \/ vin.val["bias_score"].t \in {"int", "bool"}
              \/ vin.val["features"].t = "tuple"

\* The position of the first evaluator, in declaration order, that raises
\* in the run in progress.
FirstFailing ==
    CHOOSE i \in 1..Len(agents) :
        /\ plan[agents[i]].raises
        /\ \A j \in 1..(i - 1) : ~plan[agents[j]].raises

\* C5: in sequential mode with continue_on_error false, a run in which an
\* evaluator raises leaves the loop by raising OrchestrationException for
\* the first evaluator, in declaration order, that raises; the evaluators
\* before it were invoked once and no evaluator after it is invoked.
C5_SequentialAbortsAtFirstFailure ==
    [][ (/\ phase = "sequential" /\ phase' # "sequential"
         /\ ~cur.continue_on_error
         /\ \E name \in Names : plan[name].raises) =>
            /\ outcome'.kind = "raised"
            /\ outcome'.exception = "OrchestrationException"
            /\ outcome'.message =
                   <<"Orchestration failed", "Agent failed", agents[FirstFailing],
                     plan[agents[FirstFailing]].exc>>
            /\ \A j \in 1..Len(agents) :
                  invoked'[agents[j]] = IF j <= FirstFailing THEN 1 ELSE 0
      ]_vars

\* Three evaluators, sequential, continue_on_error false: the second one
\* raised, the run raised for it, and the third one was never invoked.
C5_Witness ==
    /\ outcome.kind = "raised"
    /\ ~outcome.args.parallel /\ ~outcome.args.continue_on_error
    /\ Len(agents) = 3
    /\ outcome.message = <<"Orchestration failed", "Agent failed", agents[2], "boom">>
    /\ invoked[agents[1]] = 1 /\ invoked[agents[2]] = 1 /\ invoked[agents[3]] = 0

\* The entry of an evaluator that raised, as the claim C6 states it.
ClaimErrorEntry(name, result) ==
    /\ result.keys = {"error", "status", "execution_time"}
    /\ result.error = <<"Agent failed", name, "boom">>
    /\ result.status = "failed"
    /\ result.execution_time = 0

\* The entry the evaluator gets in a run in which no evaluator raises.
ClaimCleanEntry(name, result) ==
    /\ result.keys = Returned(name).out.keys \cup {"execution_time"}
    /\ result.decision = Returned(name).out.decision
    /\ result.compliant = Returned(name).out.compliant
    /\ result.execution_time = Returned(name).time

\* C6: under continue_on_error, in either mode, when the loop has ended
\* every registered evaluator was invoked exactly once; the slot of each
\* evaluator that raised holds the error message, status 'failed' and
\* execution_time 0; the slot of each evaluator that did not raise holds
\* what it holds in a run in which no evaluator raises; and these are the
\* agent_results the caller gets.
C6_FailureIsolation ==
    /\ (phase = "aggregating" /\ cur.continue_on_error) =>
          \A name \in Names :
             /\ invoked[name] = 1
             /\ DictHas(cur.results, name)
             /\ IF plan[name].raises
                THEN ClaimErrorEntry(name, DictGet(cur.results, name))
                ELSE ClaimCleanEntry(name, DictGet(cur.results, name))
    /\ (outcome.kind = "returned" /\ outcome.args.continue_on_error) =>
          \A name \in Names :
             /\ invoked[name] = 1
             /\ DictHas(AgentResults, name)
             /\ \/ ClaimErrorEntry(name, DictGet(AgentResults, name))
                \/ ClaimCleanEntry(name, DictGet(AgentResults, name))

\* Three evaluators in parallel mode: the second raised, the first and the
\* third did not, and the loop has ended with all three slots filled.
C6_Witness ==
    /\ phase = "aggregating"
    /\ cur.continue_on_error /\ cur.parallel
    /\ Len(agents) = 3
    /\ plan[agents[2]].raises /\ ~plan[agents[1]].raises /\ ~plan[agents[3]].raises
    /\ HasError(DictGet(cur.results, agents[2]))
    /\ ~HasError(DictGet(cur.results, agents[3]))

\* C7: the history never holds more than 100 entries and is first in,
\* first out: it is the last min(k, 100) of the k entries stored since the
\* last reset, in the order they were stored; after 101 runs and no reset
\* the entry of run 1 is gone and the entries of runs 2 to 101 remain in
\* order.
C7_HistoryBoundedFifo ==
    /\ Len(execution_history) <= 100
    /\ Len(execution_history) = IF Len(log) < 100 THEN Len(log) ELSE 100
    /\ \A i \in 1..Len(execution_history) :
          execution_history[i] = log[Len(log) - Len(execution_history) + i]
    /\ \A i \in 1..(Len(log) - 1) : log[i].timestamp < log[i + 1].timestamp
    /\ (nruns = 101 /\ Len(log) = 101) =>
          \A i \in 1..100 : execution_history[i].timestamp = i + 1

\* 101 runs have been made without a reset, the last one a failed run: the
\* history holds 100 entries and starts with the entry of run 2.
C7_Witness ==
    /\ phase = "idle"
    /\ nruns = 101 /\ Len(log) = 101
    /\ Len(execution_history) = 100
    /\ execution_history[1].timestamp = 2
    /\ execution_history[100].timestamp = 101
    /\ ~execution_history[100].success

\* C8: after k >= 1 runs since construction or the last reset,
\* average_execution_time is the mean of the k recorded execution times,
\* where a failed run is recorded as 0 and counts in k.
C8_AverageIsMean ==
    /\ performance_metrics.total_executions = Len(log)
    /\ \A i \in 1..Len(log) : ~log[i].success => log[i].execution_time = 0
    /\ Len(log) >= 1 =>
          /\ performance_metrics.average_execution_time[2] > 0
          /\ performance_metrics.average_execution_time[1] * Len(log) =
                 performance_metrics.average_execution_time[2] * SumTimes(log)

\* 101 runs without a reset, among them a failed run and a run of three
\* seconds: the average is no longer the one second of the first runs.
C8_Witness ==
    /\ Len(log) = 101
    /\ \E i \in 1..Len(log) : ~log[i].success
    /\ \E i \in 1..Len(log) : log[i].execution_time = 30
    /\ performance_metrics.average_execution_time # <<10, 1>>
    /\ performance_metrics.failed_executions = 1

\* The entries of agent_results with and without an 'error' field.
WithError == {i \in 1..Len(AgentResults) : "error" \in AgentResults[i].v.keys}

WithoutError == {i \in 1..Len(AgentResults) : "error" \notin AgentResults[i].v.keys}

\* C9: in every summary a run returns, successful_agents + failed_agents =
\* total_agents, that is success_rate + failed_agents/total_agents = 1;
\* total_agents is the number of registered evaluators, failed_agents the
\* number of results with an 'error' field, successful_agents the number of
\* results without.
C9_SummaryCountsAddUp ==
    outcome.kind = "returned" =>
        /\ Summary.total_agents = Len(agents)
        /\ Summary.failed_agents = Cardinality(WithError)
        /\ Summary.successful_agents = Cardinality(WithoutError)
        /\ Summary.successful_agents + Summary.failed_agents = Summary.total_agents
        /\ Summary.success_rate[2] = Summary.total_agents
        /\ Summary.success_rate[1] + Summary.failed_agents = Summary.success_rate[2]

\* A summary of three evaluators of which one failed and two succeeded.
C9_Witness ==
    /\ outcome.kind = "returned"
    /\ Summary.total_agents = 3
    /\ Summary.failed_agents = 1
    /\ Summary.successful_agents = 2

\* C10: in every summary overall_status is 'success' exactly when no
\* evaluator failed, 'partial_failure' exactly when at least one succeeded
\* and at least one failed, 'failure' exactly when none succeeded; a
\* summary with an error entry never has the status 'success'.
C10_OverallStatus ==
    outcome.kind = "returned" =>
        /\ Summary.overall_status \in {"success", "partial_failure", "failure"}
        /\ Summary.overall_status = "success" <=> WithError = {}
        /\ Summary.overall_status = "partial_failure" <=>
               (WithError # {} /\ WithoutError # {})
        /\ Summary.overall_status = "failure" <=> WithoutError = {}

\* A summary of three evaluators with the status 'partial_failure'.
C10_Witness ==
    /\ outcome.kind = "returned"
    /\ Len(agents) = 3
    /\ Summary.overall_status = "partial_failure"
    /\ WithError # {} /\ WithoutError # {}

\* C11: execution_id is unique per run: no two of the history entries
\* stored since construction or the last reset, each the entry of one call
\* of run(), share an execution_id, however close in time the two calls
\* started.
C11_ExecutionIdUnique ==
    /\ \A i, j \in 1..Len(log) :
          i # j => log[i].execution_id # log[j].execution_id
    /\ \A i, j \in 1..Len(execution_history) :
          i # j => execution_history[i].execution_id # execution_history[j].execution_id

\* The entries of the results the aggregation was called on, by position.
Entry(i) == ain[i].v

\* The positions of the evaluators that produced a decision.
Deciders == {i \in 1..Len(ain) : "error" \notin Entry(i).keys /\ "decision" \in Entry(i).keys}

\* How many evaluators decided as the evaluator at position i did.
Frequency(i) == Cardinality({j \in Deciders : Entry(j).decision = Entry(i).decision})

\* The first evaluator, in declaration order, whose decision reaches the
\* greatest frequency.
FirstMostFrequent ==
    CHOOSE i \in Deciders :
        /\ \A j \in Deciders : Frequency(j) <= Frequency(i)
        /\ \A j \in Deciders : (j < i) => Frequency(j) < Frequency(i)

Consensus == aout.summary.insights.consensus_analysis

\* C12: when some evaluator produced a decision, primary_decision is the
\* decision of the first evaluator, in declaration order, whose decision is
\* among the most frequent ones, and decision_consensus tells whether all
\* the decisions are the same.
C12_PrimaryDecisionTieBreak ==
    (aout.done /\ Deciders # {}) =>
        /\ Consensus.primary_decision = Entry(FirstMostFrequent).decision
        /\ Consensus.decision_consensus =
               (\A i, j \in Deciders : Entry(i).decision = Entry(j).decision)

\* C12, as far as the code goes: primary_decision is one of the most
\* frequent decisions, and the only one when there is no tie.
C12_PrimaryDecisionIsMostFrequent ==
    (aout.done /\ Deciders # {}) =>
        /\ \E i \in Deciders :
              /\ Consensus.primary_decision = Entry(i).decision
              /\ \A j \in Deciders : Frequency(j) <= Frequency(i)
        /\ Consensus.decision_consensus =
               (\A i, j \in Deciders : Entry(i).decision = Entry(j).decision)

\* One evaluator reports compliant=false and another one the decision
\* 'Approve'.
ClaimConflict ==
    \E i, j \in 1..Len(ain) :
        /\ i # j
        /\ "compliant" \in Entry(i).keys /\ ~Entry(i).compliant
        /\ "decision" \in Entry(j).keys /\ Entry(j).decision = "Approve"

\* C13: conflict_detection holds a conflict message exactly when one
\* evaluator's result reports compliant=false and another evaluator's
\* result reports the decision 'Approve', whatever the names the evaluators
\* are registered under.
C13_ConflictWhateverTheNames ==
    aout.done => ((aout.summary.insights.conflict_detection # <<>>) <=> ClaimConflict)

\* C13, as far as the code goes: a message is appended exactly when the
\* evaluator registered as 'Compliance' reports compliant=false and the one
\* registered as 'DecisionSupport' reports 'Approve'.
C13_ConflictOnlyForTwoNames ==
    aout.done =>
        ((aout.summary.insights.conflict_detection # <<>>) <=>
            \E i, j \in 1..Len(ain) :
                /\ ain[i].k = "Compliance" /\ ain[j].k = "DecisionSupport"
                /\ "compliant" \in Entry(i).keys /\ ~Entry(i).compliant
                /\ "decision" \in Entry(j).keys /\ Entry(j).decision = "Approve")

\* The recommendations of the summary with the given text.
Recommended(text) ==
    {i \in 1..Len(aout.summary.recommendations) :
        aout.summary.recommendations[i].text = text}

\* The names of the evaluators at the given positions, in declaration order.
NamesAt(positions) ==
    SelectSeq(agents, LAMBDA name : \E i \in positions : ain[i].k = name)

\* C14: the three heuristics apply independently.  The summary recommends
\* to review conflicting decisions exactly when two collected decisions
\* differ, to investigate failures exactly when some result carries an
\* error, naming exactly the failed evaluators, and to optimize performance
\* exactly when some execution_time exceeds one second, naming exactly
\* those evaluators; each item appears at most once.
C14_RecommendationsIndependent ==
    aout.done =>
        LET failed == {i \in 1..Len(ain) : "error" \in Entry(i).keys}
            slow == {i \in 1..Len(ain) : Entry(i).execution_time > 10}
            recs == aout.summary.recommendations
        IN /\ (Recommended("Review conflicting agent decisions for consistency") # {})
                 <=> (\E i, j \in Deciders : Entry(i).decision # Entry(j).decision)
           /\ (Recommended("Investigate failures in agents") # {}) <=> (failed # {})
           /\ \A r \in Recommended("Investigate failures in agents") :
                 recs[r].names = NamesAt(failed)
           /\ (Recommended("Optimize performance for agents") # {}) <=> (slow # {})
           /\ \A r \in Recommended("Optimize performance for agents") :
                 recs[r].names = NamesAt(slow)
           /\ \A text \in {recs[r].text : r \in 1..Len(recs)} :
                 Cardinality(Recommended(text)) = 1

\* Three evaluators: two decide differently and the second of them is
\* slow, the third failed; the summary holds all three recommendations.
C14_Witness ==
    /\ aout.done
    /\ Len(ain) = 3
    /\ "error" \in Entry(3).keys
    /\ Deciders = {1, 2} /\ Entry(1).decision # Entry(2).decision
    /\ Entry(2).execution_time > 10 /\ Entry(1).execution_time <= 10
    /\ Len(aout.summary.recommendations) = 3
    /\ aout.summary.recommendations[3].names = <<agents[2]>>

\* C15: reset_metrics sets the four metrics to zero, empties the history
\* and sets execution_count and error_count of every registered evaluator
\* to zero, and leaves the list of evaluators as it is; and the first run
\* that ends after a reset leaves the metrics and the history as the first
\* run of a new orchestrator does: one run counted, the history its entry
\* alone, the average its execution time.
C15_ResetMetricsZeroes ==
    [][ /\ ResetMetrics =>
              /\ performance_metrics'.total_executions = 0
              /\ performance_metrics'.successful_executions = 0
              /\ performance_metrics'.failed_executions = 0
              /\ performance_metrics'.average_execution_time = <<0, 1>>
              /\ execution_history' = <<>>
              /\ \A name \in Names :
                    /\ counters'[name].execution_count = 0
                    /\ counters'[name].error_count = 0
              /\ agents' = agents
        /\ (phase # "idle" /\ phase' = "idle" /\ log = <<>>) =>
              /\ Len(execution_history') = 1
              /\ performance_metrics'.total_executions = 1
              /\ performance_metrics'.successful_executions =
                     (IF execution_history'[1].success THEN 1 ELSE 0)
              /\ performance_metrics'.failed_executions =
                     (IF execution_history'[1].success THEN 0 ELSE 1)
              /\ performance_metrics'.average_execution_time =
                     <<execution_history'[1].execution_time, 1>>
      ]_vars

\* Two evaluators that count their calls, a reset between the first run
\* and the second: their counters are those of the second run alone, and
\* the metrics and the history are those of a first run.
C15_Witness ==
    /\ phase = "idle"
    /\ nruns = 2 /\ Len(log) = 1
    /\ Len(agents) = 2
    /\ performance_metrics.total_executions = 1
    /\ Len(execution_history) = 1
    /\ \A name \in Names :
          /\ counters[name].kept
          /\ counters[name].execution_count + counters[name].error_count = 1

\* What get_health_status answers in the current state.
Health == GetHealthStatus(performance_metrics, agent_status, execution_history)

\* C16: between runs, get_health_status reports 'healthy' exactly when
\* failed_executions is 0, that is when no run has failed since
\* construction or the last reset, and 'degraded' otherwise; last_execution
\* is None when the history is empty and otherwise the entry of the run that
\* finished last, which tells whether that run returned or raised.
C16_HealthStatus ==
    phase = "idle" =>
        /\ Health.orchestrator_status \in {"healthy", "degraded"}
        /\ Health.orchestrator_status = "healthy" <=>
               performance_metrics.failed_executions = 0
        /\ Health.orchestrator_status = "healthy" <=>
               (\A i \in 1..Len(log) : log[i].success)
        /\ execution_history = <<>> <=> Health.last_execution = <<>>
        /\ log # <<>> =>
               /\ Health.last_execution = <<log[Len(log)]>>
               /\ \A i \in 1..Len(log) :
                     log[i].timestamp <= Health.last_execution[1].timestamp
        /\ (log # <<>> /\ Ended) =>
               /\ Health.last_execution[1].timestamp = nruns
               /\ Health.last_execution[1].success = (outcome.kind = "returned")

\* The first run raised and the second returned: the orchestrator is
\* degraded and last_execution is the entry of the second run.
C16_Witness ==
    /\ phase = "idle"
    /\ Len(execution_history) = 2
    /\ ~execution_history[1].success
    /\ outcome.kind = "returned"
    /\ Health.orchestrator_status = "degraded"
    /\ Health.last_execution[1].success
    /\ Health.last_execution[1].timestamp = 2

\* C17: what a call of run() gives its caller is either the complete
\* response, with an entry for every registered evaluator, the summary and
\* the metadata, or one OrchestrationException that wraps the cause and no
\* response at all; and a run raises when its input fails validation, when
\* an evaluator it awaited raised under continue_on_error=false, and when
\* the aggregation fails (no evaluator registered: division by zero).
C17_OneOrchestrationException ==
    Ended =>
        /\ outcome.kind \in {"returned", "raised"}
        /\ outcome.kind = "returned" =>
              /\ DOMAIN outcome.response =
                     {"agent_results", "orchestration_summary", "execution_metadata"}
              /\ \A name \in Names : DictHas(AgentResults, name)
              /\ Len(AgentResults) = Len(agents)
              /\ Summary.total_agents = Len(agents)
              /\ outcome.response.execution_metadata.input_data = outcome.args.input_data
              /\ outcome.exception = ""
        /\ outcome.kind = "raised" =>
              /\ outcome.exception = "OrchestrationException"
              /\ outcome.response = <<>>
              /\ Len(outcome.message) >= 2
              /\ outcome.message[1] = "Orchestration failed"
              /\ outcome.message[2] \in
                     {"not_dict", "missing", "type", "range", "Agent failed",
                      "division by zero"}
        /\ outcome.args.input_data \in InvalidRunInputs => outcome.kind = "raised"
        /\ (agents = <<>>) => outcome.kind = "raised"
        /\ (outcome.kind = "raised" /\ outcome.message[2] = "Agent failed") =>
              ~outcome.args.continue_on_error

\* An orchestrator without evaluators ran a valid input in parallel mode
\* under continue_on_error: the aggregation failed and the caller got the
\* OrchestrationException.
C17_Witness ==
    /\ outcome.kind = "raised"
    /\ agents = <<>>
    /\ outcome.args.input_data = ValidInput
    /\ outcome.args.parallel /\ outcome.args.continue_on_error
    /\ outcome.exception = "OrchestrationException"
    /\ outcome.message = <<"Orchestration failed", "division by zero">>
    /\ performance_metrics.failed_executions >= 1

\* A run of the four standard evaluators with a valid input and the default
\* arguments (sequential, continue_on_error) has returned.
StandardRunReturned ==
    /\ outcome.kind = "returned"
    /\ Len(agents) = 4
    /\ outcome.args.input_data = ValidInput
    /\ ~outcome.args.parallel /\ outcome.args.continue_on_error

\* The field each class of evaluator puts in its result.
OwnField(name) ==
    CASE AgentClass(name) = "ComplianceAgent" -> "compliant"
      [] AgentClass(name) = "BiasAuditingAgent" -> "bias_flagged"
      [] AgentClass(name) = "DecisionSupportAgent" -> "decision"
      [] OTHER -> "explanation"

C19_WaitAllBarrier ==
    [][ (cur.parallel /\ phase # "idle" /\ phase' = "idle") =>
            \A name \in Names : tasks[name] # "running"
      ]_vars

\* C19, as far as the code goes: the loop of awaits is left with every call
\* finished when continue_on_error is true, and a run that ends with a call
\* still running is one that raises under continue_on_error=false for an
\* evaluator that comes earlier in declaration order.
C19_BarrierUnderContinueOnError ==
    [][ /\ (phase = "parallel" /\ phase' # "parallel" /\ cur.continue_on_error) =>
              /\ phase' = "aggregating"
              /\ \A name \in Names : tasks[name] \in {"ok", "err"}
        /\ (cur.parallel /\ phase # "idle" /\ phase' = "idle"
             /\ \E name \in Names : tasks[name] = "running") =>
              /\ ~cur.continue_on_error
              /\ outcome'.kind = "raised"
              /\ \A i \in 1..Len(agents) :
                    tasks[agents[i]] = "running" => cur.idx < i
      ]_vars

\* C20: a run in which a call of evaluate that was made has stalled never
\* returns or raises, in sequential and in parallel mode, with
\* continue_on_error or without, whether other evaluators raise or not: no
\* step ends a run while one of its calls is stalled.
C20_StalledEvaluatorStallsRun ==
    [][ (phase # "idle" /\ phase' = "idle") =>
            \A name \in Names : tasks[name] # "stalled"
      ]_vars

\* C20, as far as the code goes: a sequential run and a parallel run under
\* continue_on_error never end with a stalled call; a run that does is a
\* parallel run under continue_on_error=false that raises for an evaluator
\* declared before the stalled one.
C20_StallsExceptParallelAbort ==
    [][ (phase # "idle" /\ phase' = "idle"
         /\ \E name \in Names : tasks[name] = "stalled") =>
            /\ cur.parallel /\ ~cur.continue_on_error
            /\ outcome'.kind = "raised"
            /\ \A i \in 1..Len(agents) :
                  tasks[agents[i]] = "stalled" => cur.idx < i
      ]_vars

\* The call a sequential run is in has stalled: a state the model reaches,
\* and in which the run stays.
C20_StalledSequential ==
    phase = "sequential" /\ cur.calling /\ tasks[agents[cur.idx]] = "stalled"

\* The status the dispatch loops give an evaluator whose call ended as o.
StatusOf(o) == IF o.raises THEN "failed" ELSE "healthy"

\* The step ends the run in progress.
RunEnds == phase # "idle" /\ phase' = "idle"

Position(name) == CHOOSE i \in 1..Len(agents) : agents[i] = name

\* The names come in declaration order, none twice.
InDeclarationOrder(names) ==
    \A i, j \in 1..Len(names) :
        i < j => /\ names[i] \in Names /\ names[j] \in Names
                 /\ Position(names[i]) < Position(names[j])

\* C22: the result map is built in declaration order in both modes, in
\* whatever order the calls of a parallel run complete: while a run
\* dispatches, the keys of its results are the first evaluators of the
\* list, in order; the agent_results a run returns have the evaluators'
\* names in declaration order for their keys; and the names each
\* recommendation of the summary lists are in declaration order.
C22_DeclarationOrder ==
    /\ phase \in {"sequential", "parallel", "aggregating"} =>
          /\ DictKeys(cur.results) = SubSeq(agents, 1, Len(cur.results))
          /\ Len(cur.results) = cur.idx - 1
    /\ outcome.kind = "returned" =>
          /\ DictKeys(AgentResults) = agents
          /\ \A i \in 1..Len(Summary.recommendations) :
                InDeclarationOrder(Summary.recommendations[i].names)
          /\ \A i \in 1..Len(Summary.recommendations) :
                Summary.recommendations[i].text = "Investigate failures in agents" =>
                    Summary.recommendations[i].names =
                        SelectSeq(agents, LAMBDA name : HasError(DictGet(AgentResults, name)))

\* A parallel run of three evaluators has returned, its three calls having
\* completed in any of the six orders; the first and the third evaluator
\* raised and the second was slow.  The results and the names in the
\* recommendations are in declaration order.
C22_Witness ==
    /\ outcome.kind = "returned"
    /\ outcome.args.parallel
    /\ Len(agents) = 3
    /\ DictKeys(AgentResults) = agents
    /\ HasError(DictGet(AgentResults, agents[1]))
    /\ ~HasError(DictGet(AgentResults, agents[2]))
    /\ HasError(DictGet(AgentResults, agents[3]))
    /\ \E i \in 1..Len(Summary.recommendations) :
          Summary.recommendations[i].names = <<agents[1], agents[3]>>
    /\ \E i \in 1..Len(Summary.recommendations) :
          Summary.recommendations[i].names = <<agents[2]>>

\* C23: every step that changes the metrics is a reset, which zeroes the
\* three counts, or a record, which adds one to total_executions and one to
\* exactly one of successful_executions and failed_executions; and in every
\* state total_executions = successful_executions + failed_executions.
C23_CountsAddUp ==
    [][ LET m == performance_metrics
            n == performance_metrics'
        IN /\ m.total_executions = m.successful_executions + m.failed_executions
           /\ n.total_executions = n.successful_executions + n.failed_executions
           /\ n # m =>
                 \/ /\ ResetMetrics
                    /\ n.total_executions = 0
                    /\ n.successful_executions = 0
                    /\ n.failed_executions = 0
                 \/ /\ RunEnds
                    /\ n.total_executions = m.total_executions + 1
                    /\ \/ /\ n.successful_executions = m.successful_executions + 1
                          /\ n.failed_executions = m.failed_executions
                          /\ outcome'.kind = "returned"
                       \/ /\ n.successful_executions = m.successful_executions
                          /\ n.failed_executions = m.failed_executions + 1
                          /\ outcome'.kind = "raised"
           /\ RunEnds => n.total_executions = m.total_executions + 1
      ]_vars

\* A run, then a reset, then a run that returned: the counts are those of
\* the second run alone.
C23_Witness ==
    /\ phase = "idle"
    /\ nruns = 2
    /\ Len(log) = 1
    /\ performance_metrics.total_executions = 1
    /\ performance_metrics.successful_executions = 1
    /\ performance_metrics.failed_executions = 0
    /\ outcome.kind = "returned"

\* Every caller thread has made its run and left run().
AllThreadsDone ==
    /\ DOMAIN threads = Threads
    /\ \A t \in Threads : threads[t].pc = "done"

\* Some thread entered run() while another was in it.
Overlapped == \E t \in DOMAIN threads : threads[t].overlapped

\* Nothing the runs recorded is lost: every run is counted once, as
\* successful or as failed; the history is the last entries stored, up to
\* the bound; the average is the mean of the recorded times.
NothingLost ==
    /\ performance_metrics.total_executions = Len(log)
    /\ performance_metrics.total_executions =
           performance_metrics.successful_executions
               + performance_metrics.failed_executions
    /\ performance_metrics.successful_executions =
           Cardinality({i \in 1..Len(log) : log[i].success})
    /\ Len(execution_history) =
           (IF Len(log) < HistoryLimit THEN Len(log) ELSE HistoryLimit)
    /\ \A i \in 1..Len(execution_history) :
          execution_history[i] = log[Len(log) - Len(execution_history) + i]
    /\ performance_metrics.average_execution_time[1] * Len(log) =
           performance_metrics.average_execution_time[2] * SumTimes(log)

\* C24, as claimed: when calls of run() that caller threads made on one
\* orchestrator overlapped and have all finished, nothing is lost.
C24_OverlappingRunsLoseNothing ==
    (AllThreadsDone /\ Overlapped) => NothingLost

\* C24, amended: nothing is lost when the calls did not overlap, each
\* thread having entered run() after the others had left it.
C24_SerializedRunsLoseNothing ==
    (AllThreadsDone /\ ~Overlapped) => NothingLost

\* Two calls made one after the other on a new orchestrator, one that
\* returned and one that raised: both are counted and both are in the
\* history.
C24_Witness ==
    /\ AllThreadsDone /\ ~Overlapped
    /\ Len(log) = 2
    /\ performance_metrics.total_executions = 2
    /\ performance_metrics.successful_executions = 1
    /\ performance_metrics.failed_executions = 1
    /\ Len(execution_history) = 2

\* C25: a run is recorded as successful exactly when run() returns and as
\* failed exactly when it raises, whatever its evaluators did: the step
\* that ends a run adds one to successful_executions and stores an entry
\* with success true when it returns, and adds one to failed_executions
\* and stores an entry with success false when it raises.  A run that
\* returns with overall_status 'failure', every evaluator having failed
\* under continue_on_error, is recorded with success true and, no run
\* having failed before, leaves orchestrator_status 'healthy'.
C25_SuccessMeansReturned ==
    [][ RunEnds =>
          LET m == performance_metrics
              n == performance_metrics'
              e == execution_history'[Len(execution_history')]
              summary == outcome'.response.orchestration_summary
              health == GetHealthStatus(n, agent_status', execution_history')
          IN /\ outcome'.kind \in {"returned", "raised"}
             /\ outcome'.kind = "returned" =>
                   /\ n.successful_executions = m.successful_executions + 1
                   /\ n.failed_executions = m.failed_executions
                   /\ e.success
                   /\ e.error_message = <<>>
             /\ outcome'.kind = "raised" =>
                   /\ n.failed_executions = m.failed_executions + 1
                   /\ n.successful_executions = m.successful_executions
                   /\ ~e.success
                   /\ e.execution_time = 0
             /\ (outcome'.kind = "returned" /\ summary.overall_status = "failure") =>
                   /\ cur.continue_on_error
                   /\ summary.successful_agents = 0
                   /\ \A name \in Names : agent_status'[name] = "failed"
                   /\ e.success
                   /\ health.last_execution = <<e>>
                   /\ m.failed_executions = 0 => health.orchestrator_status = "healthy"
      ]_vars

\* Both evaluators raised in a run under continue_on_error: the run
\* returned with overall_status 'failure', its entry says success, and the
\* orchestrator reports 'healthy'.
C25_Witness ==
    /\ phase = "idle"
    /\ outcome.kind = "returned"
    /\ Len(agents) = 2
    /\ Summary.overall_status = "failure"
    /\ \A name \in Names : agent_status[name] = "failed"
    /\ execution_history[Len(execution_history)].success
    /\ performance_metrics.failed_executions = 0
    /\ performance_metrics.successful_executions >= 1
    /\ Health.orchestrator_status = "healthy"

\* C26: every run, returning or raising, in either mode, records metrics
\* once and stores one history entry, in the step that ends it: that step
\* adds one to total_executions and appends one entry, dropping the oldest
\* when the history is full; no other step but a reset touches the metrics
\* or the history.  Hence between runs the length of the history is the
\* smaller of total_executions and 100.
C26_RecordedExactlyOnce ==
    [][ /\ RunEnds =>
              /\ performance_metrics'.total_executions =
                     performance_metrics.total_executions + 1
              /\ Len(log') = Len(log) + 1
              /\ execution_history' =
                     StoreExecutionHistory(execution_history, log'[Len(log')])
              /\ log'[Len(log')].timestamp = nruns
        /\ (~RunEnds /\ ~ResetMetrics) =>
              UNCHANGED <<performance_metrics, execution_history>>
        /\ phase = "idle" =>
              Len(execution_history) =
                  (IF performance_metrics.total_executions < 100
                   THEN performance_metrics.total_executions ELSE 100)
        /\ phase' = "idle" =>
              Len(execution_history') =
                  (IF performance_metrics'.total_executions < 100
                   THEN performance_metrics'.total_executions ELSE 100)
      ]_vars

\* The hundred-and-first run, sequential under continue_on_error=false,
\* raised for an evaluator: it is counted once, and the history holds 100
\* entries, the last of them for this run.
C26_Witness ==
    /\ phase = "idle"
    /\ performance_metrics.total_executions = 101
    /\ performance_metrics.failed_executions = 1
    /\ Len(execution_history) = 100
    /\ outcome.kind = "raised"
    /\ ~outcome.args.parallel /\ ~outcome.args.continue_on_error
    /\ outcome.message[2] = "Agent failed"
    /\ execution_history[100].timestamp = 101
    /\ execution_history[99].timestamp = 100

\* The last run raised for the failure of an evaluator.
AbortedForAgent == outcome.kind = "raised" /\ outcome.message[2] = "Agent failed"

\* The evaluator whose failure the exception names.
AbortingAgent == outcome.message[3]

\* C27: in a parallel run whose input passed validation every registered
\* evaluator's evaluate is called exactly once, with continue_on_error or
\* without, whichever evaluators raise: from dispatch on, and when the run
\* has ended, each evaluator has been called once.  When a parallel run
\* raised for an evaluator, those declared after it have been called all
\* the same, whereas a sequential run that raised for an evaluator has
\* called none of those declared after it.
C27_ParallelCallsEveryEvaluatorOnce ==
    /\ phase \in {"parallel", "aggregating"} /\ cur.parallel =>
          \A name \in Names : invoked[name] = 1
    /\ (Ended /\ outcome.args.parallel /\ IsValid(outcome.args.input_data)) =>
          \A name \in Names : invoked[name] = 1
    /\ (Ended /\ AbortedForAgent) =>
          \A i \in 1..Len(agents) :
              i > Position(AbortingAgent) =>
                  invoked[agents[i]] = (IF outcome.args.parallel THEN 1 ELSE 0)

\* A parallel run of three evaluators under continue_on_error=false raised
\* for the first: the second and the third were called nevertheless.
C27_Witness ==
    /\ phase = "idle"
    /\ Len(agents) = 3
    /\ outcome.args.parallel /\ ~outcome.args.continue_on_error
    /\ AbortedForAgent
    /\ AbortingAgent = agents[1]
    /\ invoked[agents[2]] = 1
    /\ invoked[agents[3]] = 1

\* C28: a parallel run under continue_on_error=false in which evaluators
\* raise ends by raising for the first of them in declaration order,
\* whatever the order in which the calls finished; until then it has
\* written agent_status for the evaluators up to that one alone, each with
\* its outcome, and the entries of the evaluators declared after it are
\* what they were before the run.
C28_ParallelAbortIsFirstInOrder ==
    [][ (/\ phase = "parallel"
         /\ ~cur.continue_on_error
         /\ \E name \in Names : plan[name].raises) =>
            /\ phase' \in {"parallel", "idle"}
            /\ cur.idx <= FirstFailing
            /\ \A i \in 1..Len(agents) :
                  agent_status'[agents[i]] # agent_status[agents[i]] =>
                      i = cur.idx /\ i <= FirstFailing
            /\ phase' = "idle" =>
                  /\ cur.idx = FirstFailing
                  /\ outcome'.kind = "raised"
                  /\ outcome'.exception = "OrchestrationException"
                  /\ outcome'.message =
                         <<"Orchestration failed", "Agent failed", agents[FirstFailing],
                           plan[agents[FirstFailing]].exc>>
                  /\ \A i \in 1..Len(agents) :
                        IF i <= FirstFailing
                        THEN agent_status'[agents[i]] = StatusOf(plan[agents[i]])
                        ELSE agent_status'[agents[i]] = agent_status[agents[i]]
      ]_vars

\* Both evaluators raised in the first run, a parallel run under
\* continue_on_error=false, each having counted its error: the run raised
\* for the first, and the entry of the second is still the 'healthy' of
\* construction.
C28_Witness ==
    /\ phase = "idle"
    /\ nruns = 1
    /\ Len(agents) = 2
    /\ outcome.args.parallel /\ ~outcome.args.continue_on_error
    /\ AbortedForAgent
    /\ AbortingAgent = agents[1]
    /\ counters[agents[1]].error_count = 1
    /\ counters[agents[2]].error_count = 1
    /\ agent_status[agents[1]] = "failed"
    /\ agent_status[agents[2]] = "healthy"

\* C29: reset_metrics leaves agent_status as it is: what get_health_status
\* reports for each evaluator right after a reset is what it reported right
\* before, 'failed' for an evaluator the last run marked failed, while
\* orchestrator_status is 'healthy' and last_execution is None.
C29_ResetKeepsAgentStatus ==
    [][ ResetMetrics =>
          LET before == GetHealthStatus(performance_metrics, agent_status,
                                        execution_history)
              after == GetHealthStatus(performance_metrics', agent_status',
                                       execution_history')
          IN /\ agent_status' = agent_status
             /\ after.agent_status = before.agent_status
             /\ \A name \in Names :
                   agent_status[name] = "failed" => after.agent_status[name] = "failed"
             /\ after.orchestrator_status = "healthy"
             /\ after.last_execution = <<>>
             /\ after.performance_metrics = ZeroMetrics
      ]_vars

\* The only run so far raised for the first evaluator and the metrics were
\* reset after it: the orchestrator reports 'healthy' with no last
\* execution, and the evaluator is still reported 'failed'.
C29_Witness ==
    /\ phase = "idle"
    /\ nruns = 1
    /\ AbortedForAgent
    /\ log = <<>>
    /\ execution_history = <<>>
    /\ performance_metrics = ZeroMetrics
    /\ Health.orchestrator_status = "healthy"
    /\ Health.last_execution = <<>>
    /\ Health.agent_status[agents[1]] = "failed"

\* run() has given its caller a response or an OrchestrationException and
\* the orchestrator is between runs, its locals gone.
RunOver ==
    /\ phase = "idle"
    /\ cur = IdleCur
    /\ \/ outcome.kind = "returned"
       \/ outcome.kind = "raised" /\ outcome.exception = "OrchestrationException"

\* C30: when every call of evaluate that is made returns or raises, every
\* run that is started ends: run() returns a response or raises
\* OrchestrationException, in sequential and in parallel mode, with
\* continue_on_error and without, and the orchestrator is then idle, ready
\* for the next call of run().
C30_RunTerminates == (phase # "idle") ~> RunOver

\* A parallel run under continue_on_error=false raised while the call of
\* the second evaluator was still running, and the next run, started on
\* the same orchestrator, has returned.
C30_Witness ==
    /\ RunOver
    /\ nruns = 2
    /\ Len(log) = 2
    /\ ~log[1].success
    /\ log[1].error_message[1] = "Agent failed"
    /\ outcome.kind = "returned"
    /\ outcome.args.parallel
    /\ Len(agents) = 2
    /\ orphans[agents[2]] = 1

====
